---- MODULE Spec2Model ----
(***************************************************************************)
(* Query / session lifecycle of the impalad coordinator frontend           *)
(* (be/src/service/impala-server.cc).                                      *)
(*                                                                         *)
(* Threads are client RPC threads, cancellation-pool workers and the       *)
(* session-expiration thread; the statestore bus callback runs as one      *)
(* step.  A thread's position inside a handler is pc[t]; its local         *)
(* variables are loc[t].  Mutexes that are held while another lock is      *)
(* acquired, or across a blocking call, are explicit variables; a critical *)
(* section that takes one mutex and cannot block inside is one step        *)
(* guarded by that mutex being free.                                       *)
(***************************************************************************)
EXTENDS Integers, Sequences, FiniteSets, TLC

\* ------------------------------------------------------------------------
\* Bounds of the model
\* ------------------------------------------------------------------------
\* Queries one client issues in the sequential runs.
MaxQueries == 2
\* Queries issued in the runs with several threads.
MaxConcurrentQueries == 1
TickMs == 2000
MaxNow == 2000
\* The pool's queue capacity (65536 in the source), scaled down.
MAX_CANCELLATION_QUEUE_SIZE == 2
\* The largest step of the clock in the runs that follow the sweepers' sleeps.
ClockStepMs == 250
\* FragmentExecState objects created in a run.
MaxFragments == 2
\* The largest catalog version and the largest catalog topic version.
MaxCatalogVersion == 1
MaxTopicVersion == 1

Clients == {"c1", "c2"}
Workers == {"w1"}
SessionExpirer == "session-expirer"
QueryExpirer == "query-expirer"
Sweepers == {SessionExpirer, QueryExpirer}
Threads == Clients \cup Workers \cup Sweepers
NoThread == "none"

\* The sessions clients run queries on, and all sessions connections open.
SessionIds == {"s1"}
AllSessionIds == SessionIds \cup {"s2"}
NoSession == "nosession"
Hosts == {"h1", "h2"}

QueryIds == 1 .. MaxQueries
\* An id no Execute ever generated (a client passing a made-up handle).
BogusId == MaxQueries + 1

QueryLogSizes == {-2, -1, 0, 1}

\* Catalog service ids; a default-constructed TUniqueId before the first update.
ServiceIds == {"sid1", "sid2"}
NoServiceId == "nosid"
CatalogVersions == 0 .. MaxCatalogVersion
TopicVersions == 0 .. MaxTopicVersion

NULL == "NULL"
OK == "OK"
SessionClosedCause == "Session closed"
SessionExpiredCause == "Session expired due to inactivity"
ClientCancelCause == "Cancelled from client"
PlanningError == "PLANNING_ERROR"
ExecutionError == "EXECUTION_ERROR"
\* "Query $0 expired due to client inactivity (timeout is $1)", without the
\* id and the timeout.
QueryExpiredCause == "Query expired due to client inactivity"
\* "query id $0 already exists", INTERNAL_ERROR
DuplicateIdError == "INTERNAL_ERROR: query id already exists"
\* SleepForMs(1000L) between two passes of ExpireQueries.
QueryExpirationPollMs == 1000

VARIABLES
  FLAGS_query_log_size,      \* --query_log_size
  FLAGS_idle_session_timeout,\* --idle_session_timeout (s)
  FLAGS_idle_query_timeout,  \* --idle_query_timeout (s)
  now,                       \* ms_since_epoch()
  is_offline,                \* is_offline_
  next_query_id,             \* ids PrepareQueryContext has handed out so far
  session_state_map,         \* keys of session_state_map_
  sessions,                  \* the SessionState objects (shared_ptr targets)
  session_lock,              \* SessionState::lock holder, per session
  session_state_map_lock,    \* session_state_map_lock_ holder
  query_exec_state_map,      \* keys of query_exec_state_map_
  exec_states,               \* the QueryExecState objects (shared_ptr targets)
  exec_state_lock,           \* QueryExecState::lock() holder, per query
  query_exec_state_map_lock, \* query_exec_state_map_lock_ holder
  query_locations,           \* query_locations_: host -> set of query ids
  queries_by_timestamp,      \* queries_by_timestamp_: set of <<ms, query id>>
  query_log,                 \* query_log_: sequence of QueryStateRecord
  query_log_index,           \* query_log_index_: id -> record
  cancellation_queue,        \* cancellation_thread_pool_ work queue
  known_backends,            \* known_backends_ (backend id = its address)
  query_expiration_lock,     \* query_expiration_lock_ holder
  sleep_until,               \* per sweeper thread: when its SleepForMs ends
  idle_since,                \* per session: when it was created or last checked in
  pc, loc,                   \* per thread: position and locals
  result,                    \* per thread: what its last calls returned
  done_calls,                \* per query: number of QueryExecState::Done() calls
  archive_calls,             \* per query: number of ArchiveQuery calls
  unregister_true,           \* per query: number of UnregisterQuery calls that returned true
  expire_offers,             \* per query: number of expiry items the query sweeper enqueued
  ever_registered,           \* ids RegisterQuery has inserted so far
  archive_order,             \* ids in the order their records entered query_log_
  catalog_update_info,       \* catalog_update_info_
  min_subscriber_catalog_topic_version, \* min_subscriber_catalog_topic_version_
  catalog_version_lock,      \* catalog_version_lock_ holder
  catalog_version_update_cv, \* threads blocked in catalog_version_update_cv_.wait()
  catalog_callback,          \* the bus thread inside CatalogUpdateCallback: position, delta
  catalog_call,              \* per client: locals of ProcessCatalogUpdateResult
  fragment_exec_state_map,   \* fragment_exec_state_map_: instance id -> FragmentExecState
  fragment_states,           \* the FragmentExecState objects ever created
  fragment_call,             \* per RPC thread: instance id and shared_ptr it holds
  coord_reports,             \* queries whose Coordinator got UpdateFragmentExecStatus
  authorized_proxy_user_config, \* authorized_proxy_user_config_: proxy user -> allowed users
  authorize_call,            \* arguments of the last AuthorizeProxyUser call
  stream_mgr,                \* exec_env_->stream_mgr(): per sender, batches added and closed
  transmit_call,             \* per RPC thread: parameters and progress of TransmitData
  connection_to_sessions_map, \* connection_to_sessions_map_: connection id -> session ids
  connection_call            \* per thread: the connection ConnectionEnd closes, sessions left

vars == << FLAGS_query_log_size, FLAGS_idle_session_timeout, FLAGS_idle_query_timeout,
           now, is_offline, next_query_id, session_state_map, sessions, session_lock,
           session_state_map_lock, query_exec_state_map, exec_states, exec_state_lock,
           query_exec_state_map_lock, query_locations, queries_by_timestamp,
           query_log, query_log_index, cancellation_queue, known_backends,
           pc, loc, result, done_calls, archive_calls, unregister_true, expire_offers,
           ever_registered, archive_order, query_expiration_lock, sleep_until,
           idle_since, catalog_update_info, min_subscriber_catalog_topic_version,
           catalog_version_lock, catalog_version_update_cv, catalog_callback,
           catalog_call, fragment_exec_state_map, fragment_states, fragment_call,
           coord_reports, authorized_proxy_user_config, authorize_call,
           stream_mgr, transmit_call, connection_to_sessions_map, connection_call >>

flagVars == << FLAGS_query_log_size, FLAGS_idle_session_timeout, FLAGS_idle_query_timeout,
              authorized_proxy_user_config >>
sessionVars == << session_state_map, sessions, session_lock, session_state_map_lock >>
queryVars == << query_exec_state_map, exec_states, exec_state_lock,
                query_exec_state_map_lock >>
logVars == << query_log, query_log_index, archive_order >>
ghostVars == << done_calls, archive_calls, unregister_true, ever_registered, expire_offers >>
sweepVars == << query_expiration_lock, sleep_until, idle_since >>
fragmentVars == << fragment_exec_state_map, fragment_states, fragment_call >>
\* The state of the backend services (fragments, data streams).
reportVars == << coord_reports >>
authVars == << authorize_call >>
streamVars == << stream_mgr, transmit_call >>
connVars == << connection_to_sessions_map, connection_call >>
backendVars == << fragmentVars, reportVars, authVars, streamVars, connVars >>
\* The coordinator's state that the backend services leave alone.
coordinatorVars == << now, is_offline, next_query_id, sessionVars, queryVars,
                      query_locations, queries_by_timestamp, logVars, cancellation_queue,
                      known_backends, ghostVars >>
catalogVars == << catalog_update_info, min_subscriber_catalog_topic_version,
                  catalog_version_lock, catalog_version_update_cv, catalog_callback,
                  catalog_call >>

\* ------------------------------------------------------------------------
\* Objects
\* ------------------------------------------------------------------------
NewSessionState(t) ==
  [ created |-> TRUE, closed |-> FALSE, expired |-> FALSE, ref_count |-> 0,
    last_accessed_ms |-> t, inflight_queries |-> {} ]

\* A session id no connection has used yet.
NoSessionState == [ NewSessionState(0) EXCEPT !.created = FALSE ]

NoExecState ==
  [ session |-> NoSession, query_status |-> OK, query_state |-> "None",
    coord |-> FALSE, unique_hosts |-> {}, query_timeout_s |-> 0,
    exec_summary |-> FALSE, last_active |-> 0, is_active |-> FALSE ]

NewQueryExecState(s, timeout) ==
  [ NoExecState EXCEPT !.session = s, !.query_state = "Registered",
                       !.query_timeout_s = timeout, !.last_active = now ]

TerminalStates == {"Cancelled", "Finished", "Error"}

IdleLoc ==
  [ op |-> "none", q |-> BogusId, s |-> NoSession, cause |-> NULL,
    unregister |-> FALSE, registered |-> FALSE, status |-> OK,
    todo |-> {}, inflight |-> {}, flag |-> FALSE, now |-> 0,
    checked_out |-> FALSE, dup |-> FALSE, timeout |-> 0 ]

NoResult == [ op |-> "none", q |-> BogusId, val |-> "none" ]

\* Fragment instance ids, the FragmentExecState objects by order of creation,
\* and the null shared_ptr.
FragmentIds == {"f1", "f2"}
FragmentObjs == 1 .. MaxFragments
NoFragment == 0

\* A FragmentExecState not yet constructed: how far its Prepare() got,
\* whether the insert into the map was attempted for it, its exec thread's
\* position and whether Cancel() was called on it.
NoFragmentExecState ==
  [ fragment_instance_id |-> "none", prepare |-> "none", registered |-> FALSE,
    exec_thread |-> "none", cancelled |-> FALSE ]

\* An RPC thread outside ExecPlanFragment and CancelPlanFragment.
NoFragmentCall == [ fragment_instance_id |-> "none", exec_state |-> NoFragment ]

\* The bus thread outside CatalogUpdateCallback.
NoCallback ==
  [ pc |-> "idle", min_subscriber_topic_version |-> 0,
    subscriber_topic_updates |-> << >>, drop_cache |-> FALSE ]

\* A client that has not called ProcessCatalogUpdateResult.
NoCatalogCall ==
  [ version |-> 0, catalog_service_id |-> NoServiceId,
    has_object |-> FALSE, wait_for_all_subscribers |-> FALSE,
    min_req_subscriber_topic_version |-> 0, waited |-> FALSE ]

EmptyMap == [x \in {} |-> 0]
Put(m, k, v) == [x \in (DOMAIN m) \cup {k} |-> IF x = k THEN v ELSE m[x]]
Remove(m, k) == [x \in (DOMAIN m) \ {k} |-> m[x]]

\* RuntimeProfile of a query: what the two formatters print.
profile(q) ==
  [ id |-> q, status |-> exec_states[q].query_status,
    exec_summary |-> exec_states[q].exec_summary ]
PrettyPrint(p) == << "pretty", p >>
SerializeToArchiveString(p) == << "base64", p >>

Min(a, b) == IF a < b THEN a ELSE b

\* ------------------------------------------------------------------------
\* TransmitData: senders and row batches
\* ------------------------------------------------------------------------
MaxBatches == 2

\* (dest_fragment_instance_id, dest_node_id, sender_id)
Senders == {"snd1", "snd2"}

\* row_batch.num_rows of a request.
NumRows == {0 - 1, 0, 1}

NoStream == [ batches |-> 0, closed |-> FALSE ]

\* A thread that is not inside ConnectionEnd.
NoConnectionCall == [ connection |-> "none", todo |-> << >> ]

NoTransmitCall ==
  [ sender |-> "none", num_rows |-> 0, eos |-> FALSE, add_data |-> FALSE,
    close_sender |-> FALSE ]

AddDataError == "AddData failed"
CloseSenderError == "CloseSender failed"

\* ------------------------------------------------------------------------
\* Proxy users: strings are sequences of characters
\* ------------------------------------------------------------------------
MaxPrincipalLen == 2
PrincipalChars == {"a", "/", "@"}

\* std::string::npos, larger than every index.
npos == 2147483647

RECURSIVE StringsUpTo(_, _)
StringsUpTo(chars, n) ==
  IF n = 0 THEN { << >> }
  ELSE LET shorter == StringsUpTo(chars, n - 1)
       IN shorter \cup { Append(str, c) : str \in shorter, c \in chars }

\* The principals a connection may present.
Principals == StringsUpTo(PrincipalChars, MaxPrincipalLen)

\* The users a request may ask to act as.
DoAsUsers == { << >>, << "b" >>, << "c" >>, << "*" >> }

\* The proxy users and the allowed-user entries of the flag's configurations.
ProxyKeys == { << >>, << "a" >>, << "/", "a" >> }
AllowedUsers == { << "b" >>, << "*" >> }

\* authorized_proxy_user_config_ without an entry: the flag was empty.
NoProxyConfig == << >>

\* The maps the constructor can build: every proxy user of the flag has the
\* non-empty set of tokens split from its value.
ProxyConfigs ==
  UNION { [ keys -> (SUBSET AllowedUsers) \ { {} } ] : keys \in SUBSET ProxyKeys }

NoAuthorizeCall == [ user |-> << >>, do_as_user |-> << >> ]

EmptyProxyUserError == "Unable to delegate using empty proxy username."
NotAuthorizedError == "User is not authorized to delegate."
DelegationDisabledError == "User is not authorized to delegate. User delegation is disabled."

\* str.find(ch): the index (from 0) of the first ch in str, npos if none.
Find(str, ch) ==
  IF \E i \in 1 .. Len(str) : str[i] = ch
    THEN (CHOOSE i \in 1 .. Len(str) :
            /\ str[i] = ch
            /\ \A j \in 1 .. (i - 1) : str[j] # ch) - 1
    ELSE npos

\* The short name that takes the prefix even when it is empty.
ShortUser_AlwaysPrefix(user) ==
  LET end_idx == Min(Find(user, "/"), Find(user, "@"))
  IN IF end_idx = npos THEN user ELSE SubSeq(user, 1, end_idx)

\* end_idx == string::npos || end_idx == 0 ? user : user.substr(0, end_idx)
ShortUser(user) ==
  LET end_idx == Min(Find(user, "/"), Find(user, "@"))
  IN IF end_idx = npos \/ end_idx = 0 THEN user ELSE SubSeq(user, 1, end_idx)

\* The status AuthorizeProxyUser returns.  The second test of the source
\* repeats user.empty() and never looks at do_as_user.
AuthorizeProxyUserStatus(config, user, do_as_user) ==
  IF user = << >> THEN EmptyProxyUserError
  ELSE IF DOMAIN config = {} THEN DelegationDisabledError
  ELSE IF /\ ShortUser(user) \in DOMAIN config
          /\ \E allowed \in config[ShortUser(user)] :
                allowed = << "*" >> \/ allowed = do_as_user
    THEN OK
  ELSE NotAuthorizedError
Max(a, b) == IF a < b THEN b ELSE a

\* ------------------------------------------------------------------------
\* Initial state: the server as constructed, no session, no query.
\* ------------------------------------------------------------------------
ConstructedWith(log_sizes, idle_query_timeouts, proxy_configs) ==
  /\ FLAGS_query_log_size \in log_sizes
  /\ FLAGS_idle_session_timeout = 1
  /\ FLAGS_idle_query_timeout \in idle_query_timeouts
  /\ authorized_proxy_user_config \in proxy_configs
  /\ authorize_call = NoAuthorizeCall
  /\ stream_mgr = [snd \in Senders |-> NoStream]
  /\ transmit_call = [t \in Clients |-> NoTransmitCall]
  /\ connection_to_sessions_map = [c \in AllSessionIds |-> << >>]
  /\ connection_call = [t \in Clients |-> NoConnectionCall]
  /\ now = 0
  /\ is_offline = FALSE
  /\ next_query_id = 1
  /\ session_state_map = {}
  /\ sessions = [s \in AllSessionIds |-> NoSessionState]
  /\ session_lock = [s \in AllSessionIds |-> NoThread]
  /\ session_state_map_lock = NoThread
  /\ query_exec_state_map = {}
  /\ exec_states = [q \in QueryIds |-> NoExecState]
  /\ exec_state_lock = [q \in QueryIds |-> NoThread]
  /\ query_exec_state_map_lock = NoThread
  /\ query_locations = EmptyMap
  /\ queries_by_timestamp = {}
  /\ query_log = << >>
  /\ query_log_index = EmptyMap
  /\ cancellation_queue = << >>
  /\ known_backends = Hosts
  /\ pc = [t \in Threads |-> "idle"]
  /\ loc = [t \in Threads |-> IdleLoc]
  /\ result = [t \in Threads |-> NoResult]
  /\ done_calls = [q \in QueryIds |-> 0]
  /\ archive_calls = [q \in QueryIds |-> 0]
  /\ unregister_true = [q \in QueryIds |-> 0]
  /\ expire_offers = [q \in QueryIds |-> 0]
  /\ ever_registered = {}
  /\ archive_order = << >>
  /\ query_expiration_lock = NoThread
  /\ sleep_until = [t \in Sweepers |->
        IF t = SessionExpirer THEN FLAGS_idle_session_timeout * 500 ELSE 0]
  /\ idle_since = [s \in AllSessionIds |-> 0]
  /\ catalog_update_info = [ catalog_version |-> 0, catalog_topic_version |-> 0,
                             catalog_service_id |-> NoServiceId ]
  /\ min_subscriber_catalog_topic_version = 0
  /\ catalog_version_lock = NoThread
  /\ catalog_version_update_cv = {}
  /\ catalog_callback = NoCallback
  /\ catalog_call = [t \in Clients |-> NoCatalogCall]
  /\ fragment_exec_state_map = [id \in FragmentIds |-> NoFragment]
  /\ fragment_states = [o \in FragmentObjs |-> NoFragmentExecState]
  /\ fragment_call = [t \in Clients |-> NoFragmentCall]
  /\ coord_reports = {}

\* The server started without a proxy configuration and with
\* --idle_query_timeout=0.
Constructed(log_sizes) == ConstructedWith(log_sizes, {0}, {NoProxyConfig})

\* ------------------------------------------------------------------------
\* Returning from a call
\* ------------------------------------------------------------------------
\* The thread has finished its request and waits for the next one.
Finish(t, op, q, val) ==
  /\ pc' = [pc EXCEPT ![t] = "idle"]
  /\ loc' = [loc EXCEPT ![t] = IdleLoc]
  /\ result' = [result EXCEPT ![t] = [op |-> op, q |-> q, val |-> val]]

\* UnregisterQuery returns val to whichever function called it.
UnregisterReturn(t, val) ==
  /\ result' = [result EXCEPT ![t] =
        [op |-> "UnregisterQuery", q |-> loc[t].q, val |-> val]]
  /\ IF loc[t].op = "Execute"
       THEN /\ pc' = [pc EXCEPT ![t] = "release_session"]
            /\ loc' = [loc EXCEPT ![t].unregister = FALSE]
     ELSE IF loc[t].op = "CloseSessionInternal"
       THEN /\ pc' = [pc EXCEPT ![t] = "close_loop"]
            /\ loc' = [loc EXCEPT ![t].unregister = FALSE]
     ELSE /\ pc' = [pc EXCEPT ![t] = "idle"]
          /\ loc' = [loc EXCEPT ![t] = IdleLoc]

\* CancelInternal returns val: to UnregisterQuery, which ignores it, or to
\* the client / CancelFromThreadPool.
CancelReturn(t, val) ==
  /\ result' = [result EXCEPT ![t] =
        [op |-> "CancelInternal", q |-> loc[t].q, val |-> val]]
  /\ IF loc[t].unregister
       THEN /\ pc' = [pc EXCEPT ![t] = "unregister_erase"]
            /\ loc' = loc
       ELSE /\ pc' = [pc EXCEPT ![t] = "idle"]
            /\ loc' = [loc EXCEPT ![t] = IdleLoc]

\* ------------------------------------------------------------------------
\* QueryExecState methods (query-exec-state.cc)
\* ------------------------------------------------------------------------
\* The first non-OK status is latched and becomes the terminal cause.
UpdateQueryStatus(es, status) ==
  IF status # OK /\ es.query_status = OK
    THEN [es EXCEPT !.query_status = status,
                    !.query_state = IF @ \in TerminalStates THEN @ ELSE "Error"]
    ELSE es

\* Sets the status to the cause (first writer wins) and stops the coordinator.
Cancel(es, cause) ==
  IF es.query_state \in TerminalStates
    THEN es
    ELSE [es EXCEPT !.query_state = "Cancelled",
                    !.query_status = IF cause # NULL /\ @ = OK THEN cause ELSE @]

\* ------------------------------------------------------------------------
\* Time, connections
\* ------------------------------------------------------------------------
Tick ==
  /\ now + TickMs <= MaxNow
  /\ now' = now + TickMs
  /\ UNCHANGED << flagVars, backendVars, catalogVars, sweepVars, is_offline, next_query_id, sessionVars, queryVars,
                  query_locations, queries_by_timestamp, logVars, cancellation_queue,
                  known_backends, pc, loc, result, ghostVars >>

\* A sweeper thread that can take its next step now: its sleep is over, or
\* it is inside a pass and neither a lock nor the queue makes it wait.
SweeperReady(t) ==
  \/ /\ pc[t] = "idle"
     /\ now >= sleep_until[t]
     /\ IF t = SessionExpirer
          THEN FLAGS_idle_session_timeout > 0 /\ session_state_map_lock = NoThread
          ELSE query_expiration_lock = NoThread
  \/ /\ pc[t] = "expire_scan"
     /\ loc[t].todo = {} \/ \E s \in loc[t].todo : session_lock[s] = NoThread
  \/ /\ pc[t] = "expire_queries"
     /\ \/ loc[t].todo = {}
        \/ \A e \in loc[t].todo : e[1] > loc[t].now
        \/ query_exec_state_map_lock = NoThread
  \/ /\ pc[t] \in {"expire_offer", "expire_query_offer"}
     /\ Len(cancellation_queue) < MAX_CANCELLATION_QUEUE_SIZE

\* The clock moves on, by at most ClockStepMs and not past the end of a
\* sweeper's sleep; it stands still while a running sweeper can take a step
\* (a sweeper's pass takes no time unless it has to wait) and while a client
\* request is in progress.  Pool threads take whatever time they take.
Advance(running) ==
  LET wakes == {sleep_until[t] : t \in {x \in running : pc[x] = "idle"}}
      limits == {MaxNow, now + ClockStepMs} \cup {w \in wakes : w > now}
  IN
  /\ \A t \in running : ~SweeperReady(t)
  /\ \A t \in Clients : pc[t] = "idle"
  /\ now < MaxNow
  /\ now' = CHOOSE m \in limits : \A x \in limits : m <= x
  /\ UNCHANGED << flagVars, backendVars, catalogVars, sweepVars, is_offline, next_query_id, sessionVars, queryVars,
                  query_locations, queries_by_timestamp, logVars, cancellation_queue,
                  known_backends, pc, loc, result, ghostVars >>

\* connection_to_sessions_map_lock_ is free: no thread is inside
\* ConnectionEnd, which holds it from its first line to its last.
ConnectionsUnlocked == \A t \in Clients : connection_call[t] = NoConnectionCall

\* A Beeswax connection: the session takes the id of the connection.
ConnectionStart(s) ==
  /\ ~sessions[s].created
  /\ session_state_map_lock = NoThread
  /\ ConnectionsUnlocked
  /\ sessions' = [sessions EXCEPT ![s] = NewSessionState(now)]
  /\ session_state_map' = session_state_map \cup {s}
  /\ connection_to_sessions_map' =
       [connection_to_sessions_map EXCEPT ![s] = Append(@, s)]
  /\ idle_since' = [idle_since EXCEPT ![s] = now]
  /\ UNCHANGED << flagVars, fragmentVars, reportVars, authVars, streamVars, connection_call,
                  catalogVars, query_expiration_lock, sleep_until, now, is_offline, next_query_id, session_lock,
                  session_state_map_lock, queryVars, query_locations,
                  queries_by_timestamp, logVars, cancellation_queue, known_backends,
                  pc, loc, result, ghostVars >>

\* A HiveServer2 connection c opens one more session s.
OpenSession(c, s) ==
  /\ ~sessions[s].created
  /\ session_state_map_lock = NoThread
  /\ ConnectionsUnlocked
  /\ sessions' = [sessions EXCEPT ![s] = NewSessionState(now)]
  /\ session_state_map' = session_state_map \cup {s}
  /\ connection_to_sessions_map' =
       [connection_to_sessions_map EXCEPT ![c] = Append(@, s)]
  /\ idle_since' = [idle_since EXCEPT ![s] = now]
  /\ UNCHANGED << flagVars, fragmentVars, reportVars, authVars, streamVars, connection_call,
                  catalogVars, query_expiration_lock, sleep_until, now, is_offline, next_query_id, session_lock,
                  session_state_map_lock, queryVars, query_locations,
                  queries_by_timestamp, logVars, cancellation_queue, known_backends,
                  pc, loc, result, ghostVars >>

\* ------------------------------------------------------------------------
\* ConnectionEnd: close every session of the connection
\* ------------------------------------------------------------------------
\* Lock connection_to_sessions_map_lock_ and find the connection.
ConnectionEnd_Find(t, c) ==
  /\ pc[t] = "idle"
  /\ t \in Clients
  /\ ConnectionsUnlocked
  /\ IF connection_to_sessions_map[c] = << >>
       THEN /\ Finish(t, "ConnectionEnd", BogusId, OK)
            /\ UNCHANGED connection_call
       ELSE /\ connection_call' = [connection_call EXCEPT ![t] =
                 [ connection |-> c, todo |-> connection_to_sessions_map[c] ]]
            /\ pc' = [pc EXCEPT ![t] = "connection_end"]
            /\ loc' = [loc EXCEPT ![t] = [IdleLoc EXCEPT !.op = "ConnectionEnd"]]
            /\ result' = [result EXCEPT ![t] = NoResult]
  /\ UNCHANGED << flagVars, sweepVars, catalogVars, coordinatorVars, fragmentVars,
                  reportVars, authVars, streamVars, connection_to_sessions_map >>

\* The thread is in the loop of ConnectionEnd, between two sessions.
InConnectionEndLoop(t) ==
  /\ connection_call[t] # NoConnectionCall
  /\ pc[t] \in {"connection_end", "idle"}

\* CloseSessionInternal(session_id, true) for the next session of the list:
\* the lookup and the erase under session_state_map_lock_.
ConnectionEnd_Close(t) ==
  /\ InConnectionEndLoop(t)
  /\ connection_call[t].todo # << >>
  /\ session_state_map_lock = NoThread
  /\ LET s == Head(connection_call[t].todo) IN
       /\ connection_call' = [connection_call EXCEPT ![t].todo = Tail(@)]
       /\ IF s \notin session_state_map
            THEN /\ Finish(t, "CloseSessionInternal", BogusId, OK)
                 /\ UNCHANGED session_state_map
            ELSE /\ session_state_map' = session_state_map \ {s}
                 /\ pc' = [pc EXCEPT ![t] = "close_mark"]
                 /\ loc' = [loc EXCEPT ![t] = [IdleLoc EXCEPT !.op = "CloseSessionInternal",
                                                              !.s = s]]
                 /\ result' = [result EXCEPT ![t] = NoResult]
  /\ UNCHANGED << flagVars, sweepVars, catalogVars, fragmentVars, reportVars, authVars,
                  streamVars, connection_to_sessions_map, now, is_offline, next_query_id,
                  sessions, session_lock, session_state_map_lock, queryVars,
                  query_locations, queries_by_timestamp, logVars, cancellation_queue,
                  known_backends, ghostVars >>

\* connection_to_sessions_map_.erase(it), unlock, return.
ConnectionEnd_Erase(t) ==
  /\ InConnectionEndLoop(t)
  /\ connection_call[t].todo = << >>
  /\ connection_to_sessions_map' =
       [connection_to_sessions_map EXCEPT ![connection_call[t].connection] = << >>]
  /\ connection_call' = [connection_call EXCEPT ![t] = NoConnectionCall]
  /\ Finish(t, "ConnectionEnd", BogusId, OK)
  /\ UNCHANGED << flagVars, sweepVars, catalogVars, coordinatorVars, fragmentVars,
                  reportVars, authVars, streamVars >>

\* ------------------------------------------------------------------------
\* GetSessionState(session_id, mark_active = true), then Execute
\* ------------------------------------------------------------------------
\* GetSessionState that also writes last_accessed_ms when it checks the
\* session out.
GetSessionState_Refreshing(t, s, limit) ==
  /\ pc[t] = "idle"
  /\ t \in Clients
  /\ next_query_id <= limit
  /\ session_state_map_lock = NoThread
  /\ IF s \notin session_state_map
       THEN /\ Finish(t, "GetSessionState", BogusId, "Invalid session id")
            /\ UNCHANGED sessions
     ELSE /\ session_lock[s] = NoThread
          /\ IF sessions[s].expired
               THEN /\ Finish(t, "GetSessionState", BogusId, "Client session expired")
                    /\ UNCHANGED sessions
             ELSE IF sessions[s].closed
               THEN /\ Finish(t, "GetSessionState", BogusId, "Session is closed")
                    /\ UNCHANGED sessions
             ELSE /\ sessions' = [sessions EXCEPT ![s].ref_count = @ + 1,
                                                  ![s].last_accessed_ms = now]
                  /\ pc' = [pc EXCEPT ![t] = "execute"]
                  /\ loc' = [loc EXCEPT ![t] = [IdleLoc EXCEPT !.op = "Execute", !.s = s,
                                                               !.q = next_query_id,
                                                               !.checked_out = TRUE]]
                  /\ result' = [result EXCEPT ![t] = NoResult]
  /\ next_query_id' = IF pc'[t] = "execute" THEN next_query_id + 1 ELSE next_query_id
  /\ UNCHANGED << flagVars, backendVars, catalogVars, sweepVars, now, is_offline, session_state_map,
                  session_lock, session_state_map_lock, queryVars, query_locations,
                  queries_by_timestamp, logVars, cancellation_queue, known_backends,
                  ghostVars >>

\* The request that checks the session out is the next Execute; the id
\* PrepareQueryContext will generate for it is new (limit bounds the run).
GetSessionState(t, s, limit) ==
  /\ pc[t] = "idle"
  /\ t \in Clients
  /\ next_query_id <= limit
  /\ session_state_map_lock = NoThread
  /\ IF s \notin session_state_map
       THEN /\ Finish(t, "GetSessionState", BogusId, "Invalid session id")
            /\ UNCHANGED sessions
     ELSE /\ session_lock[s] = NoThread
          /\ IF sessions[s].expired
               THEN /\ Finish(t, "GetSessionState", BogusId, "Client session expired")
                    /\ UNCHANGED sessions
             ELSE IF sessions[s].closed
               THEN /\ Finish(t, "GetSessionState", BogusId, "Session is closed")
                    /\ UNCHANGED sessions
             ELSE /\ sessions' = [sessions EXCEPT ![s].ref_count = @ + 1]
                  /\ pc' = [pc EXCEPT ![t] = "execute"]
                  /\ loc' = [loc EXCEPT ![t] = [IdleLoc EXCEPT !.op = "Execute", !.s = s,
                                                               !.q = next_query_id,
                                                               !.checked_out = TRUE]]
                  /\ result' = [result EXCEPT ![t] = NoResult]
  /\ next_query_id' = IF pc'[t] = "execute" THEN next_query_id + 1 ELSE next_query_id
  /\ UNCHANGED << flagVars, backendVars, catalogVars, sweepVars, now, is_offline, session_state_map,
                  session_lock, session_state_map_lock, queryVars, query_locations,
                  queries_by_timestamp, logVars, cancellation_queue, known_backends,
                  ghostVars >>

\* The request that checks the session out is an Execute for which
\* PrepareQueryContext generates the id q: uuid_generator() may return an
\* id it has returned before.
GetSessionState_AnyId(t, s, q) ==
  /\ pc[t] = "idle"
  /\ t \in Clients
  /\ session_state_map_lock = NoThread
  /\ IF s \notin session_state_map
       THEN /\ Finish(t, "GetSessionState", BogusId, "Invalid session id")
            /\ UNCHANGED sessions
     ELSE /\ session_lock[s] = NoThread
          /\ IF sessions[s].expired
               THEN /\ Finish(t, "GetSessionState", BogusId, "Client session expired")
                    /\ UNCHANGED sessions
             ELSE IF sessions[s].closed
               THEN /\ Finish(t, "GetSessionState", BogusId, "Session is closed")
                    /\ UNCHANGED sessions
             ELSE /\ sessions' = [sessions EXCEPT ![s].ref_count = @ + 1]
                  /\ pc' = [pc EXCEPT ![t] = "execute"]
                  /\ loc' = [loc EXCEPT ![t] = [IdleLoc EXCEPT !.op = "Execute", !.s = s,
                                                               !.q = q,
                                                               !.checked_out = TRUE]]
                  /\ result' = [result EXCEPT ![t] = NoResult]
  /\ UNCHANGED << flagVars, backendVars, catalogVars, sweepVars, now, is_offline, next_query_id,
                  session_state_map,
                  session_lock, session_state_map_lock, queryVars, query_locations,
                  queries_by_timestamp, logVars, cancellation_queue, known_backends,
                  ghostVars >>

\* ScopedSessionState's destructor: the request checks the session back in.
MarkSessionInactive(t) ==
  /\ pc[t] = "release_session"
  /\ loc[t].checked_out
  /\ session_lock[loc[t].s] = NoThread
  /\ sessions' = [sessions EXCEPT ![loc[t].s].ref_count = @ - 1]
  /\ idle_since' = [idle_since EXCEPT ![loc[t].s] = now]
  /\ Finish(t, "Execute", loc[t].q, loc[t].status)
  /\ UNCHANGED << flagVars, backendVars, catalogVars, query_expiration_lock, sleep_until, now, is_offline, next_query_id, session_state_map,
                  session_lock, session_state_map_lock, queryVars, query_locations,
                  queries_by_timestamp, logVars, cancellation_queue, known_backends,
                  ghostVars >>

\* GetSessionState(session_id, mark_active = false): the handle of a known
\* session, whatever its state; the caller then runs Execute with it.
GetSessionState_Unmarked(t, s, limit) ==
  /\ pc[t] = "idle"
  /\ t \in Clients
  /\ next_query_id <= limit
  /\ session_state_map_lock = NoThread
  /\ IF s \notin session_state_map
       THEN Finish(t, "GetSessionState", BogusId, "Invalid session id")
       ELSE /\ pc' = [pc EXCEPT ![t] = "execute"]
            /\ loc' = [loc EXCEPT ![t] = [IdleLoc EXCEPT !.op = "Execute", !.s = s,
                                                         !.q = next_query_id]]
            /\ result' = [result EXCEPT ![t] = NoResult]
  /\ next_query_id' = IF pc'[t] = "execute" THEN next_query_id + 1 ELSE next_query_id
  /\ UNCHANGED << flagVars, backendVars, catalogVars, sweepVars, now, is_offline, sessionVars, queryVars, query_locations,
                  queries_by_timestamp, logVars, cancellation_queue, known_backends,
                  ghostVars >>

\* Execute returns to a caller that holds the session without a check-out.
Execute_Return(t) ==
  /\ pc[t] = "release_session"
  /\ ~loc[t].checked_out
  /\ Finish(t, "Execute", loc[t].q, loc[t].status)
  /\ UNCHANGED << flagVars, backendVars, catalogVars, sweepVars, now, is_offline, next_query_id, sessionVars, queryVars,
                  query_locations, queries_by_timestamp, logVars, cancellation_queue,
                  known_backends, ghostVars >>

\* SetOffline(is_offline), called by the node-manager failure detector.
SetOffline(offline) ==
  /\ is_offline' = offline
  /\ UNCHANGED << flagVars, backendVars, catalogVars, sweepVars, now, next_query_id, sessionVars,
                  queryVars, query_locations, queries_by_timestamp, logVars,
                  cancellation_queue, known_backends, pc, loc, result, ghostVars >>

\* Execute / ExecuteInternal up to taking the new exec state's lock.  When
\* the generated id is that of an exec state that exists already, the new
\* one (dup) and its lock are this thread's own until it is registered.
ExecuteStart(t, timeout) ==
  /\ pc[t] = "execute"
  /\ LET q == loc[t].q IN
       IF is_offline
         THEN /\ pc' = [pc EXCEPT ![t] = "release_session"]
              /\ loc' = [loc EXCEPT ![t].status = "Server offline"]
              /\ UNCHANGED << exec_states, exec_state_lock >>
       ELSE IF exec_states[q] # NoExecState
         THEN /\ pc' = [pc EXCEPT ![t] = "register_session"]
              /\ loc' = [loc EXCEPT ![t].dup = TRUE, ![t].timeout = timeout]
              /\ UNCHANGED << exec_states, exec_state_lock >>
         ELSE /\ exec_states' = [exec_states EXCEPT
                     ![q] = NewQueryExecState(loc[t].s, timeout)]
              /\ exec_state_lock' = [exec_state_lock EXCEPT ![q] = t]
              /\ pc' = [pc EXCEPT ![t] = "register_session"]
              /\ UNCHANGED loc
  /\ UNCHANGED << flagVars, backendVars, catalogVars, sweepVars, now, is_offline, next_query_id, sessionVars, query_exec_state_map,
                  query_exec_state_map_lock, query_locations, queries_by_timestamp,
                  logVars, cancellation_queue, known_backends, result, ghostVars >>

\* RegisterQuery_Session that already publishes the exec state in the
\* registry, before RegisterQuery takes query_exec_state_map_lock_.
RegisterQuery_Session_EarlyPublish(t) ==
  /\ pc[t] = "register_session"
  /\ session_lock[loc[t].s] = NoThread
  /\ IF sessions[loc[t].s].closed
       THEN /\ exec_state_lock' = [exec_state_lock EXCEPT ![loc[t].q] = NoThread]
            /\ pc' = [pc EXCEPT ![t] = "release_session"]
            /\ loc' = [loc EXCEPT ![t].status = "Session has been closed, ignoring query."]
            /\ UNCHANGED << session_lock, sessions, query_exec_state_map, ever_registered >>
       ELSE /\ session_lock' = [session_lock EXCEPT ![loc[t].s] = t]
            /\ sessions' = [sessions EXCEPT ![loc[t].s].inflight_queries = @ \cup {loc[t].q}]
            /\ query_exec_state_map' = query_exec_state_map \cup {loc[t].q}
            /\ ever_registered' = ever_registered \cup {loc[t].q}
            /\ pc' = [pc EXCEPT ![t] = "register_map"]
            /\ UNCHANGED << exec_state_lock, loc >>
  /\ UNCHANGED << flagVars, backendVars, catalogVars, sweepVars, now, is_offline, next_query_id, session_state_map,
                  session_state_map_lock, exec_states,
                  query_exec_state_map_lock, query_locations, queries_by_timestamp,
                  logVars, cancellation_queue, known_backends, result, done_calls,
                  archive_calls, unregister_true, expire_offers >>

\* RegisterQuery_Session without the test of closed (lines 639-641).
RegisterQuery_Session_NoClosedCheck(t) ==
  /\ pc[t] = "register_session"
  /\ session_lock[loc[t].s] = NoThread
  /\ session_lock' = [session_lock EXCEPT ![loc[t].s] = t]
  /\ pc' = [pc EXCEPT ![t] = "register_map"]
  /\ UNCHANGED << exec_state_lock, loc >>
  /\ UNCHANGED << flagVars, backendVars, catalogVars, sweepVars, now, is_offline, next_query_id, session_state_map, sessions,
                  session_state_map_lock, query_exec_state_map, exec_states,
                  query_exec_state_map_lock, query_locations, queries_by_timestamp,
                  logVars, cancellation_queue, known_backends, result, ghostVars >>

\* DCHECK(session_state->ref_count > 0 && !session_state->expired)
DCheckSession(session_state) == session_state.ref_count > 0 /\ ~session_state.expired

\* RegisterQuery: lock the session, refuse a closed one.  A failing DCHECK
\* aborts the process in a debug build and is compiled out of a release
\* build.
RegisterQuery_Session(t) ==
  /\ pc[t] = "register_session"
  /\ session_lock[loc[t].s] = NoThread
  /\ \E debug_build \in BOOLEAN :
       IF debug_build /\ ~DCheckSession(sessions[loc[t].s])
         THEN /\ pc' = [x \in Threads |-> "aborted"]
              /\ UNCHANGED << session_lock, exec_state_lock, loc >>
       ELSE IF sessions[loc[t].s].closed
         THEN \* RETURN_IF_ERROR in ExecuteInternal: the exec-state lock_guard unwinds
              /\ exec_state_lock' =
                   IF loc[t].dup THEN exec_state_lock
                   ELSE [exec_state_lock EXCEPT ![loc[t].q] = NoThread]
              /\ pc' = [pc EXCEPT ![t] = "release_session"]
              /\ loc' = [loc EXCEPT ![t].status = "Session has been closed, ignoring query."]
              /\ UNCHANGED session_lock
         ELSE /\ session_lock' = [session_lock EXCEPT ![loc[t].s] = t]
              /\ pc' = [pc EXCEPT ![t] = "register_map"]
              /\ UNCHANGED << exec_state_lock, loc >>
  /\ UNCHANGED << flagVars, backendVars, catalogVars, sweepVars, now, is_offline, next_query_id, session_state_map, sessions,
                  session_state_map_lock, query_exec_state_map, exec_states,
                  query_exec_state_map_lock, query_locations, queries_by_timestamp,
                  logVars, cancellation_queue, known_backends, result, ghostVars >>

\* RegisterQuery_Insert without line 653: the id goes into the registry only.
RegisterQuery_Insert_NoInflight(t) ==
  /\ pc[t] = "register_map"
  /\ query_exec_state_map_lock = NoThread
  /\ query_exec_state_map' = query_exec_state_map \cup {loc[t].q}
  /\ ever_registered' = ever_registered \cup {loc[t].q}
  /\ pc' = [pc EXCEPT ![t] = "register_timeout"]
  /\ UNCHANGED << flagVars, backendVars, catalogVars, sweepVars, now, is_offline, next_query_id, sessionVars, exec_states,
                  exec_state_lock, query_exec_state_map_lock, query_locations,
                  queries_by_timestamp, logVars, cancellation_queue, known_backends,
                  loc, result, done_calls, archive_calls, unregister_true, expire_offers >>

\* The threads whose new exec state has the id q and is not registered yet.
Registering(q) ==
  { u \in Clients : loc[u].q = q /\ pc[u] \in {"register_session", "register_map"} }

\* The locals of the threads once thread t has registered its exec state
\* under q: an unregistered exec state of another thread with that id is
\* now the duplicate.
AfterRegistration(t, q) ==
  [ u \in Threads |->
      IF u = t THEN [loc[u] EXCEPT !.dup = FALSE]
      ELSE IF u \in Registering(q) /\ ~loc[u].dup
        THEN [loc[u] EXCEPT !.dup = TRUE, !.timeout = exec_states[q].query_timeout_s]
      ELSE loc[u] ]

\* RegisterQuery_Insert with operator[] in place of find and insert: an
\* exec state registered under the id is replaced.
RegisterQuery_Insert_Overwrite(t) ==
  /\ pc[t] = "register_map"
  /\ query_exec_state_map_lock = NoThread
  /\ LET q == loc[t].q
         s == loc[t].s IN
       /\ sessions' = [sessions EXCEPT ![s].inflight_queries = @ \cup {q}]
       /\ query_exec_state_map' = query_exec_state_map \cup {q}
       /\ ever_registered' = ever_registered \cup {q}
       /\ pc' = [pc EXCEPT ![t] = "register_timeout"]
       /\ IF loc[t].dup
            THEN /\ exec_states' = [exec_states EXCEPT
                        ![q] = NewQueryExecState(s, loc[t].timeout)]
                 /\ exec_state_lock' = [exec_state_lock EXCEPT ![q] = t]
                 /\ loc' = AfterRegistration(t, q)
            ELSE UNCHANGED << exec_states, exec_state_lock, loc >>
       /\ UNCHANGED session_lock
  /\ UNCHANGED << flagVars, backendVars, catalogVars, sweepVars, now, is_offline, next_query_id, session_state_map,
                  session_state_map_lock, query_exec_state_map_lock,
                  query_locations, queries_by_timestamp, logVars, cancellation_queue,
                  known_backends, result, done_calls, archive_calls, unregister_true, expire_offers >>

\* RegisterQuery: under query_exec_state_map_lock_, insert into the session's
\* inflight set and into the registry, unless the id is there already.
RegisterQuery_Insert(t) ==
  /\ pc[t] = "register_map"
  /\ query_exec_state_map_lock = NoThread
  /\ LET q == loc[t].q
         s == loc[t].s IN
       IF q \in query_exec_state_map
         THEN /\ session_lock' = [session_lock EXCEPT ![s] = NoThread]
              /\ exec_state_lock' =
                   IF loc[t].dup THEN exec_state_lock
                   ELSE [exec_state_lock EXCEPT ![q] = NoThread]
              /\ pc' = [pc EXCEPT ![t] = "release_session"]
              /\ loc' = [loc EXCEPT ![t].status = DuplicateIdError]
              /\ UNCHANGED << sessions, query_exec_state_map, ever_registered, exec_states >>
         ELSE /\ sessions' = [sessions EXCEPT ![s].inflight_queries = @ \cup {q}]
              /\ query_exec_state_map' = query_exec_state_map \cup {q}
              /\ ever_registered' = ever_registered \cup {q}
              /\ pc' = [pc EXCEPT ![t] = "register_timeout"]
              /\ IF loc[t].dup
                   THEN /\ exec_states' = [exec_states EXCEPT
                               ![q] = NewQueryExecState(s, loc[t].timeout)]
                        /\ exec_state_lock' = [exec_state_lock EXCEPT ![q] = t]
                        /\ loc' = AfterRegistration(t, q)
                   ELSE UNCHANGED << exec_states, exec_state_lock, loc >>
              /\ UNCHANGED session_lock
  /\ UNCHANGED << flagVars, backendVars, catalogVars, sweepVars, now, is_offline, next_query_id, session_state_map,
                  session_state_map_lock, query_exec_state_map_lock,
                  query_locations, queries_by_timestamp, logVars, cancellation_queue,
                  known_backends, result, done_calls, archive_calls, unregister_true, expire_offers >>

\* The idle timeout of a query: the smaller of the two when both are set,
\* else the one that is set.
\* The effective timeout that is always the smaller of the two.
EffectiveTimeout_AlwaysMin(global, per_query) == Min(global, per_query)

EffectiveTimeout(global, per_query) ==
  IF global > 0 /\ per_query > 0 THEN Min(global, per_query)
                                 ELSE Max(global, per_query)

\* RegisterQuery: queue the expiration event, unlock the session, return OK.
RegisterQuery_Timeout(t) ==
  /\ pc[t] = "register_timeout"
  /\ LET q == loc[t].q
         timeout_s == EffectiveTimeout(FLAGS_idle_query_timeout,
                                       exec_states[q].query_timeout_s) IN
       /\ timeout_s > 0 => query_expiration_lock = NoThread
       /\ queries_by_timestamp' =
            IF timeout_s > 0
              THEN queries_by_timestamp \cup {<< now + 1000 * timeout_s, q >>}
              ELSE queries_by_timestamp
  /\ session_lock' = [session_lock EXCEPT ![loc[t].s] = NoThread]
  /\ pc' = [pc EXCEPT ![t] = "plan"]
  /\ loc' = [loc EXCEPT ![t].registered = TRUE]
  /\ UNCHANGED << flagVars, backendVars, catalogVars, sweepVars, now, is_offline, next_query_id, session_state_map, sessions,
                  session_state_map_lock, queryVars, query_locations, logVars,
                  cancellation_queue, known_backends, result, ghostVars >>

\* ExecuteInternal: frontend()->GetExecRequest under the exec-state lock;
\* plan_ok, coord and hosts are what the planner and scheduler come back with.
ExecuteInternal_Plan(t, plan_ok, coord, hosts) ==
  /\ pc[t] = "plan"
  /\ LET q == loc[t].q IN
       /\ exec_state_lock' = [exec_state_lock EXCEPT ![q] = NoThread]
       /\ IF plan_ok
            THEN /\ exec_states' = [exec_states EXCEPT
                        ![q].query_state = IF @ \in TerminalStates THEN @ ELSE "Planned",
                        ![q].unique_hosts = IF coord THEN hosts ELSE {},
                        ![q].coord = FALSE]
                 /\ pc' = [pc EXCEPT ![t] = "exec"]
                 /\ loc' = [loc EXCEPT ![t].flag = coord]
            ELSE /\ exec_states' = [exec_states EXCEPT
                        ![q] = UpdateQueryStatus(@, PlanningError)]
                 /\ pc' = [pc EXCEPT ![t] = "cancel_lookup"]
                 /\ loc' = [loc EXCEPT ![t].status = PlanningError,
                                       ![t].cause = PlanningError,
                                       ![t].unregister = TRUE]
  /\ UNCHANGED << flagVars, backendVars, catalogVars, sweepVars, now, is_offline, next_query_id, sessionVars,
                  query_exec_state_map, query_exec_state_map_lock, query_locations,
                  queries_by_timestamp, logVars, cancellation_queue, known_backends,
                  result, ghostVars >>

\* ExecuteInternal_Exec after which Execute returns a failure of Exec()
\* without the call of UnregisterQuery (lines 541-543).
ExecuteInternal_Exec_NoUnregister(t, exec_ok) ==
  /\ pc[t] = "exec"
  /\ LET q == loc[t].q IN
       IF exec_ok
         THEN /\ exec_states' = [exec_states EXCEPT
                     ![q].coord = loc[t].flag,
                     ![q].query_state = IF @ \in TerminalStates THEN @ ELSE "Running"]
              /\ pc' = [pc EXCEPT ![t] = "record_hosts"]
              /\ loc' = loc
         ELSE /\ exec_states' = [exec_states EXCEPT
                     ![q] = UpdateQueryStatus(@, ExecutionError)]
              /\ pc' = [pc EXCEPT ![t] = "release_session"]
              /\ loc' = [loc EXCEPT ![t].status = ExecutionError]
  /\ UNCHANGED << flagVars, backendVars, catalogVars, sweepVars, now, is_offline, next_query_id, sessionVars,
                  query_exec_state_map, exec_state_lock, query_exec_state_map_lock,
                  query_locations, queries_by_timestamp, logVars, cancellation_queue,
                  known_backends, result, ghostVars >>

\* ExecuteInternal: exec_state->Exec(&result) starts the coordinator.
ExecuteInternal_Exec(t, exec_ok) ==
  /\ pc[t] = "exec"
  /\ LET q == loc[t].q IN
       IF exec_ok
         THEN /\ exec_states' = [exec_states EXCEPT
                     ![q].coord = loc[t].flag,
                     ![q].query_state = IF @ \in TerminalStates THEN @ ELSE "Running"]
              /\ pc' = [pc EXCEPT ![t] = "record_hosts"]
              /\ loc' = loc
         ELSE /\ exec_states' = [exec_states EXCEPT
                     ![q] = UpdateQueryStatus(@, ExecutionError)]
              /\ pc' = [pc EXCEPT ![t] = "cancel_lookup"]
              /\ loc' = [loc EXCEPT ![t].status = ExecutionError,
                                    ![t].cause = ExecutionError,
                                    ![t].unregister = TRUE]
  /\ UNCHANGED << flagVars, backendVars, catalogVars, sweepVars, now, is_offline, next_query_id, sessionVars,
                  query_exec_state_map, exec_state_lock, query_exec_state_map_lock,
                  query_locations, queries_by_timestamp, logVars, cancellation_queue,
                  known_backends, result, ghostVars >>

\* query_locations_[port].insert(query_id) for every host of the schedule.
AddLocations(locs, hosts, q) ==
  [h \in (DOMAIN locs) \cup hosts |->
      IF h \in hosts
        THEN (IF h \in DOMAIN locs THEN locs[h] ELSE {}) \cup {q}
        ELSE locs[h]]

\* ExecuteInternal: record the participating hosts, return OK.
ExecuteInternal_Locations(t) ==
  /\ pc[t] = "record_hosts"
  /\ LET q == loc[t].q IN
       query_locations' =
         IF exec_states[q].coord /\ exec_states[q].unique_hosts # {}
           THEN AddLocations(query_locations, exec_states[q].unique_hosts, q)
           ELSE query_locations
  /\ pc' = [pc EXCEPT ![t] = "release_session"]
  /\ loc' = [loc EXCEPT ![t].status = OK]
  /\ UNCHANGED << flagVars, backendVars, catalogVars, sweepVars, now, is_offline, next_query_id, sessionVars, queryVars,
                  queries_by_timestamp, logVars, cancellation_queue, known_backends,
                  result, ghostVars >>

\* ------------------------------------------------------------------------
\* CancelInternal(query_id, cause)
\* ------------------------------------------------------------------------
\* GetQueryExecState(query_id, lock = true): under the registry lock find
\* the exec state and lock it.  When the exec-state lock is taken the
\* caller waits for it with the registry lock held.
GetQueryExecState_Lock(t) ==
  /\ pc[t] = "cancel_lookup"
  /\ query_exec_state_map_lock = NoThread
  /\ LET q == loc[t].q IN
       IF q \notin query_exec_state_map
         THEN /\ CancelReturn(t, "Invalid or unknown query handle")
              /\ UNCHANGED << exec_state_lock, query_exec_state_map_lock >>
       ELSE IF exec_state_lock[q] = NoThread
         THEN /\ exec_state_lock' = [exec_state_lock EXCEPT ![q] = t]
              /\ pc' = [pc EXCEPT ![t] = "cancel_locked"]
              /\ UNCHANGED << query_exec_state_map_lock, loc, result >>
       ELSE /\ query_exec_state_map_lock' = t
            /\ pc' = [pc EXCEPT ![t] = "cancel_wait"]
            /\ UNCHANGED << exec_state_lock, loc, result >>
  /\ UNCHANGED << flagVars, backendVars, catalogVars, sweepVars, now, is_offline, next_query_id, sessionVars,
                  query_exec_state_map, exec_states, query_locations,
                  queries_by_timestamp, logVars, cancellation_queue, known_backends,
                  ghostVars >>

GetQueryExecState_Wait(t) ==
  /\ pc[t] = "cancel_wait"
  /\ exec_state_lock[loc[t].q] = NoThread
  /\ exec_state_lock' = [exec_state_lock EXCEPT ![loc[t].q] = t]
  /\ query_exec_state_map_lock' = NoThread
  /\ pc' = [pc EXCEPT ![t] = "cancel_locked"]
  /\ UNCHANGED << flagVars, backendVars, catalogVars, sweepVars, now, is_offline, next_query_id, sessionVars,
                  query_exec_state_map, exec_states, query_locations,
                  queries_by_timestamp, logVars, cancellation_queue, known_backends,
                  loc, result, ghostVars >>

\* CancelInternal_Cancel without the call of exec_state->Cancel(cause).
CancelInternal_Cancel_NoCancel(t) ==
  /\ pc[t] = "cancel_locked"
  /\ exec_state_lock' = [exec_state_lock EXCEPT ![loc[t].q] = NoThread]
  /\ CancelReturn(t, OK)
  /\ UNCHANGED << flagVars, backendVars, catalogVars, sweepVars, now, is_offline, next_query_id, sessionVars,
                  query_exec_state_map, exec_states, query_exec_state_map_lock,
                  query_locations, queries_by_timestamp, logVars, cancellation_queue,
                  known_backends, ghostVars >>

\* CancelInternal_Cancel without adopt_lock_t: the exec-state lock stays held.
CancelInternal_Cancel_KeepLock(t) ==
  /\ pc[t] = "cancel_locked"
  /\ exec_states' = [exec_states EXCEPT ![loc[t].q] = Cancel(@, loc[t].cause)]
  /\ CancelReturn(t, OK)
  /\ UNCHANGED << flagVars, backendVars, catalogVars, sweepVars, now, is_offline, next_query_id, sessionVars,
                  query_exec_state_map, exec_state_lock, query_exec_state_map_lock,
                  query_locations, queries_by_timestamp, logVars, cancellation_queue,
                  known_backends, ghostVars >>

\* exec_state->Cancel(cause) under the adopted lock; the lock_guard unlocks.
CancelInternal_Cancel(t) ==
  /\ pc[t] = "cancel_locked"
  /\ exec_states' = [exec_states EXCEPT ![loc[t].q] = Cancel(@, loc[t].cause)]
  /\ exec_state_lock' = [exec_state_lock EXCEPT ![loc[t].q] = NoThread]
  /\ CancelReturn(t, OK)
  /\ UNCHANGED << flagVars, backendVars, catalogVars, sweepVars, now, is_offline, next_query_id, sessionVars,
                  query_exec_state_map, query_exec_state_map_lock, query_locations,
                  queries_by_timestamp, logVars, cancellation_queue, known_backends,
                  ghostVars >>

\* ------------------------------------------------------------------------
\* UnregisterQuery(query_id, cause), after its call of CancelInternal
\* ------------------------------------------------------------------------
\* UnregisterQuery_Erase returning true for an id it did not find.
UnregisterQuery_Erase_ReturnsTrue(t) ==
  /\ pc[t] = "unregister_erase"
  /\ query_exec_state_map_lock = NoThread
  /\ IF loc[t].q \notin query_exec_state_map
       THEN /\ UnregisterReturn(t, TRUE)
            /\ UNCHANGED query_exec_state_map
       ELSE /\ query_exec_state_map' = query_exec_state_map \ {loc[t].q}
            /\ pc' = [pc EXCEPT ![t] = "unregister_done"]
            /\ UNCHANGED << loc, result >>
  /\ UNCHANGED << flagVars, backendVars, catalogVars, sweepVars, now, is_offline, next_query_id, sessionVars, exec_states,
                  exec_state_lock, query_exec_state_map_lock, query_locations,
                  queries_by_timestamp, logVars, cancellation_queue, known_backends,
                  ghostVars >>

\* UnregisterQuery_Erase without line 692: the entry is found and left in place.
UnregisterQuery_Erase_NoErase(t) ==
  /\ pc[t] = "unregister_erase"
  /\ query_exec_state_map_lock = NoThread
  /\ IF loc[t].q \notin query_exec_state_map
       THEN /\ UnregisterReturn(t, FALSE)
       ELSE /\ pc' = [pc EXCEPT ![t] = "unregister_done"]
            /\ UNCHANGED << loc, result >>
  /\ UNCHANGED << flagVars, backendVars, catalogVars, sweepVars, now, is_offline, next_query_id, sessionVars, queryVars,
                  query_locations, queries_by_timestamp, logVars, cancellation_queue,
                  known_backends, ghostVars >>

\* Erase the query from the registry; an unknown id returns false.
UnregisterQuery_Erase(t) ==
  /\ pc[t] = "unregister_erase"
  /\ query_exec_state_map_lock = NoThread
  /\ IF loc[t].q \notin query_exec_state_map
       THEN /\ UnregisterReturn(t, FALSE)
            /\ UNCHANGED query_exec_state_map
       ELSE /\ query_exec_state_map' = query_exec_state_map \ {loc[t].q}
            /\ pc' = [pc EXCEPT ![t] = "unregister_done"]
            /\ UNCHANGED << loc, result >>
  /\ UNCHANGED << flagVars, backendVars, catalogVars, sweepVars, now, is_offline, next_query_id, sessionVars, exec_states,
                  exec_state_lock, query_exec_state_map_lock, query_locations,
                  queries_by_timestamp, logVars, cancellation_queue, known_backends,
                  ghostVars >>

\* UnregisterQuery_Done without lines 702-705: the inflight set keeps the id.
UnregisterQuery_Done_KeepInflight(t) ==
  /\ pc[t] = "unregister_done"
  /\ LET q == loc[t].q IN
       /\ done_calls' = [done_calls EXCEPT ![q] = @ + 1]
       /\ exec_states' = [exec_states EXCEPT ![q].exec_summary = exec_states[q].coord]
       /\ pc' = [pc EXCEPT ![t] =
             IF exec_states[q].coord /\ exec_states[q].unique_hosts # {}
               THEN "unregister_locations" ELSE "archive"]
  /\ UNCHANGED << flagVars, backendVars, catalogVars, sweepVars, now, is_offline, next_query_id, sessionVars,
                  query_exec_state_map, exec_state_lock, query_exec_state_map_lock,
                  query_locations, queries_by_timestamp, logVars, cancellation_queue,
                  known_backends, loc, result, archive_calls, unregister_true, expire_offers,
                  ever_registered >>

\* exec_state->Done(), then drop the id from the session's inflight set;
\* with a coordinator the exec summary goes into the profile.
UnregisterQuery_Done(t) ==
  /\ pc[t] = "unregister_done"
  /\ LET q == loc[t].q
         s == exec_states[q].session IN
       /\ session_lock[s] = NoThread
       /\ done_calls' = [done_calls EXCEPT ![q] = @ + 1]
       /\ sessions' = [sessions EXCEPT ![s].inflight_queries = @ \ {q}]
       /\ exec_states' = [exec_states EXCEPT ![q].exec_summary = exec_states[q].coord]
       /\ pc' = [pc EXCEPT ![t] =
             IF exec_states[q].coord /\ exec_states[q].unique_hosts # {}
               THEN "unregister_locations" ELSE "archive"]
  /\ UNCHANGED << flagVars, backendVars, catalogVars, sweepVars, now, is_offline, next_query_id, session_state_map,
                  session_lock, session_state_map_lock, query_exec_state_map,
                  exec_state_lock, query_exec_state_map_lock, query_locations,
                  queries_by_timestamp, logVars, cancellation_queue, known_backends,
                  loc, result, archive_calls, unregister_true, expire_offers, ever_registered >>

\* it->second.erase(query_id) for every host still in query_locations_.
RemoveLocations(locs, hosts, q) ==
  [h \in DOMAIN locs |-> IF h \in hosts THEN locs[h] \ {q} ELSE locs[h]]

UnregisterQuery_Locations(t) ==
  /\ pc[t] = "unregister_locations"
  /\ query_locations' =
       RemoveLocations(query_locations, exec_states[loc[t].q].unique_hosts, loc[t].q)
  /\ pc' = [pc EXCEPT ![t] = "archive"]
  /\ UNCHANGED << flagVars, backendVars, catalogVars, sweepVars, now, is_offline, next_query_id, sessionVars, queryVars,
                  queries_by_timestamp, logVars, cancellation_queue, known_backends,
                  loc, result, ghostVars >>

\* ------------------------------------------------------------------------
\* ArchiveQuery
\* ------------------------------------------------------------------------
QueryStateRecord(q) ==
  [ id |-> q,
    query_status |-> exec_states[q].query_status,
    query_state |-> exec_states[q].query_state,
    has_coord |-> exec_states[q].coord,
    profile_str |-> PrettyPrint(profile(q)),
    encoded_profile_str |-> SerializeToArchiveString(profile(q)) ]

\* InsertRecord at end() instead of begin().
InsertRecord_AtEnd(log, record) == log \o << record >>

\* query_log_.insert(query_log_.begin(), record)
InsertRecord(log, record) == << record >> \o log

\* query_log_.pop_back()
PopBack(log) == SubSeq(log, 1, Len(log) - 1)

\* The log and its index after ArchiveQuery of q with --query_log_size = size.
\* ArchivedLog without line 526: the evicted record's index entry stays.
ArchivedLog_KeepIndexEntry(log, index, size, record) ==
  IF size = 0 THEN [log |-> log, index |-> index]
  ELSE LET log1 == InsertRecord(log, record)
           index1 == Put(index, record.id, record)
       IN IF size > -1 /\ size < Len(log1)
            THEN [log |-> PopBack(log1), index |-> index1]
            ELSE [log |-> log1, index |-> index1]

ArchivedLog(log, index, size, record) ==
  IF size = 0 THEN [log |-> log, index |-> index]
  ELSE LET log1 == InsertRecord(log, record)
           index1 == Put(index, record.id, record)
       IN IF size > -1 /\ size < Len(log1)
            THEN [log |-> PopBack(log1), index |-> Remove(index1, log1[Len(log1)].id)]
            ELSE [log |-> log1, index |-> index1]

\* ArchiveQuery(*exec_state), the last call of UnregisterQuery, which then
\* returns true.
ArchiveQuery(t) ==
  /\ pc[t] = "archive"
  /\ LET q == loc[t].q
         after == ArchivedLog(query_log, query_log_index, FLAGS_query_log_size,
                              QueryStateRecord(q)) IN
       /\ query_log' = after.log
       /\ query_log_index' = after.index
       /\ archive_order' = IF FLAGS_query_log_size = 0 THEN archive_order
                                                       ELSE Append(archive_order, q)
       /\ archive_calls' = [archive_calls EXCEPT ![q] = @ + 1]
       /\ unregister_true' = [unregister_true EXCEPT ![q] = @ + 1]
  /\ UnregisterReturn(t, TRUE)
  /\ UNCHANGED << flagVars, backendVars, catalogVars, sweepVars, now, is_offline, next_query_id, sessionVars, queryVars,
                  query_locations, queries_by_timestamp, cancellation_queue,
                  known_backends, done_calls, ever_registered, expire_offers >>

\* ------------------------------------------------------------------------
\* Client requests on a query handle
\* ------------------------------------------------------------------------
\* Handles a client can present: ids of queries registered at some time, or
\* one that never was.
Handles == ever_registered \cup {BogusId}

ClientCancel(t, q) ==
  /\ pc[t] = "idle"
  /\ t \in Clients
  /\ q \in Handles
  /\ pc' = [pc EXCEPT ![t] = "cancel_lookup"]
  /\ loc' = [loc EXCEPT ![t] = [IdleLoc EXCEPT !.op = "CancelInternal", !.q = q,
                                               !.cause = ClientCancelCause]]
  /\ result' = [result EXCEPT ![t] = NoResult]
  /\ UNCHANGED << flagVars, backendVars, catalogVars, sweepVars, now, is_offline, next_query_id, sessionVars, queryVars,
                  query_locations, queries_by_timestamp, logVars, cancellation_queue,
                  known_backends, ghostVars >>

\* Closing a query: UnregisterQuery(query_id) with no cause.
ClientUnregister(t, q) ==
  /\ pc[t] = "idle"
  /\ t \in Clients
  /\ q \in Handles
  /\ pc' = [pc EXCEPT ![t] = "cancel_lookup"]
  /\ loc' = [loc EXCEPT ![t] = [IdleLoc EXCEPT !.op = "UnregisterQuery", !.q = q,
                                               !.cause = NULL, !.unregister = TRUE]]
  /\ result' = [result EXCEPT ![t] = NoResult]
  /\ UNCHANGED << flagVars, backendVars, catalogVars, sweepVars, now, is_offline, next_query_id, sessionVars, queryVars,
                  query_locations, queries_by_timestamp, logVars, cancellation_queue,
                  known_backends, ghostVars >>

\* ------------------------------------------------------------------------
\* GetRuntimeProfileStr(query_id, base64_encoded)
\* ------------------------------------------------------------------------
\* A client asks for the profile of the query behind a handle.
ClientProfile(t, q, base64_encoded) ==
  /\ pc[t] = "idle"
  /\ t \in Clients
  /\ q \in Handles
  /\ pc' = [pc EXCEPT ![t] = "profile_live"]
  /\ loc' = [loc EXCEPT ![t] = [IdleLoc EXCEPT !.op = "GetRuntimeProfileStr",
                                               !.q = q, !.flag = base64_encoded]]
  /\ result' = [result EXCEPT ![t] = NoResult]
  /\ UNCHANGED << flagVars, backendVars, catalogVars, sweepVars, now, is_offline, next_query_id, sessionVars, queryVars,
                  query_locations, queries_by_timestamp, logVars, cancellation_queue,
                  known_backends, ghostVars >>

\* First the live registry, under query_exec_state_map_lock_.
GetRuntimeProfileStr_Live(t) ==
  /\ pc[t] = "profile_live"
  /\ query_exec_state_map_lock = NoThread
  /\ LET q == loc[t].q IN
       IF q \in query_exec_state_map
         THEN Finish(t, "GetRuntimeProfileStr", q,
                     << OK, IF loc[t].flag THEN SerializeToArchiveString(profile(q))
                                           ELSE PrettyPrint(profile(q)) >>)
         ELSE /\ pc' = [pc EXCEPT ![t] = "profile_log"]
              /\ UNCHANGED << loc, result >>
  /\ UNCHANGED << flagVars, backendVars, catalogVars, sweepVars, now, is_offline, next_query_id, sessionVars, queryVars,
                  query_locations, queries_by_timestamp, logVars, cancellation_queue,
                  known_backends, ghostVars >>

\* GetRuntimeProfileStr_Log with the flag ignored: always the pretty string.
GetRuntimeProfileStr_Log_AlwaysPretty(t) ==
  /\ pc[t] = "profile_log"
  /\ LET q == loc[t].q IN
       IF q \notin DOMAIN query_log_index
         THEN Finish(t, "GetRuntimeProfileStr", q, << "Query id not found", "" >>)
         ELSE Finish(t, "GetRuntimeProfileStr", q, << OK, query_log_index[q].profile_str >>)
  /\ UNCHANGED << flagVars, backendVars, catalogVars, sweepVars, now, is_offline, next_query_id, sessionVars, queryVars,
                  query_locations, queries_by_timestamp, logVars, cancellation_queue,
                  known_backends, ghostVars >>

\* On a miss the archive, under query_log_lock_.
GetRuntimeProfileStr_Log(t) ==
  /\ pc[t] = "profile_log"
  /\ LET q == loc[t].q IN
       IF q \notin DOMAIN query_log_index
         THEN Finish(t, "GetRuntimeProfileStr", q, << "Query id not found", "" >>)
         ELSE Finish(t, "GetRuntimeProfileStr", q,
                     << OK, IF loc[t].flag THEN query_log_index[q].encoded_profile_str
                                           ELSE query_log_index[q].profile_str >>)
  /\ UNCHANGED << flagVars, backendVars, catalogVars, sweepVars, now, is_offline, next_query_id, sessionVars, queryVars,
                  query_locations, queries_by_timestamp, logVars, cancellation_queue,
                  known_backends, ghostVars >>

\* GetExecSummary: the archive only, under query_log_lock_; the summary of a
\* record is there when the query had a coordinator.
GetExecSummary(t, q) ==
  /\ pc[t] = "idle"
  /\ t \in Clients
  /\ q \in Handles
  /\ result' = [result EXCEPT ![t] =
       [op |-> "GetExecSummary", q |-> q,
        val |-> IF q \notin DOMAIN query_log_index
                  THEN << "Query id not found", FALSE >>
                  ELSE << OK, query_log_index[q].has_coord >>]]
  /\ UNCHANGED << flagVars, backendVars, catalogVars, sweepVars, now, is_offline, next_query_id, sessionVars, queryVars,
                  query_locations, queries_by_timestamp, logVars, cancellation_queue,
                  known_backends, pc, loc, ghostVars >>

\* ------------------------------------------------------------------------
\* CloseSessionInternal(session_id, ignore_if_absent)
\* ------------------------------------------------------------------------
\* CloseSessionInternal_Find without line 771: the session stays in
\* session_state_map_.
CloseSessionInternal_Find_NoErase(t, s, ignore_if_absent) ==
  /\ pc[t] = "idle"
  /\ t \in Clients
  /\ sessions[s].created
  /\ session_state_map_lock = NoThread
  /\ IF s \notin session_state_map
       THEN Finish(t, "CloseSessionInternal", BogusId,
                   IF ignore_if_absent THEN OK ELSE "Invalid session ID")
       ELSE /\ pc' = [pc EXCEPT ![t] = "close_mark"]
            /\ loc' = [loc EXCEPT ![t] = [IdleLoc EXCEPT !.op = "CloseSessionInternal",
                                                         !.s = s]]
            /\ result' = [result EXCEPT ![t] = NoResult]
  /\ UNCHANGED << flagVars, backendVars, catalogVars, sweepVars, now, is_offline, next_query_id, sessionVars,
                  queryVars, query_locations, queries_by_timestamp, logVars,
                  cancellation_queue, known_backends, ghostVars >>

CloseSessionInternal_Find(t, s, ignore_if_absent) ==
  /\ pc[t] = "idle"
  /\ t \in Clients
  /\ sessions[s].created
  /\ session_state_map_lock = NoThread
  /\ IF s \notin session_state_map
       THEN /\ Finish(t, "CloseSessionInternal", BogusId,
                      IF ignore_if_absent THEN OK ELSE "Invalid session ID")
            /\ UNCHANGED session_state_map
       ELSE /\ session_state_map' = session_state_map \ {s}
            /\ pc' = [pc EXCEPT ![t] = "close_mark"]
            /\ loc' = [loc EXCEPT ![t] = [IdleLoc EXCEPT !.op = "CloseSessionInternal",
                                                         !.s = s]]
            /\ result' = [result EXCEPT ![t] = NoResult]
  /\ UNCHANGED << flagVars, backendVars, catalogVars, sweepVars, now, is_offline, next_query_id, sessions, session_lock,
                  session_state_map_lock, queryVars, query_locations,
                  queries_by_timestamp, logVars, cancellation_queue, known_backends,
                  ghostVars >>

\* Under the session lock: closed = true, copy the inflight set.
CloseSessionInternal_Mark(t) ==
  /\ pc[t] = "close_mark"
  /\ session_lock[loc[t].s] = NoThread
  /\ sessions' = [sessions EXCEPT ![loc[t].s].closed = TRUE]
  /\ loc' = [loc EXCEPT ![t].todo = sessions[loc[t].s].inflight_queries]
  /\ pc' = [pc EXCEPT ![t] = "close_loop"]
  /\ UNCHANGED << flagVars, backendVars, catalogVars, sweepVars, now, is_offline, next_query_id, session_state_map,
                  session_lock, session_state_map_lock, queryVars, query_locations,
                  queries_by_timestamp, logVars, cancellation_queue, known_backends,
                  result, ghostVars >>

\* CloseSessionInternal without its loop: it returns once the session is
\* marked closed and unregisters no query.
CloseSessionInternal_Loop_NoUnregister(t) ==
  /\ pc[t] = "close_loop"
  /\ Finish(t, "CloseSessionInternal", BogusId, OK)
  /\ UNCHANGED << flagVars, backendVars, catalogVars, sweepVars, now, is_offline, next_query_id, sessionVars, queryVars,
                  query_locations, queries_by_timestamp, logVars, cancellation_queue,
                  known_backends, ghostVars >>

\* UnregisterQuery(query_id, "Session closed") for each copied id.
CloseSessionInternal_Loop(t) ==
  /\ pc[t] = "close_loop"
  /\ IF loc[t].todo = {}
       THEN Finish(t, "CloseSessionInternal", BogusId, OK)
       ELSE /\ \E q \in loc[t].todo :
                 loc' = [loc EXCEPT ![t].todo = @ \ {q}, ![t].q = q,
                                    ![t].cause = SessionClosedCause,
                                    ![t].unregister = TRUE]
            /\ pc' = [pc EXCEPT ![t] = "cancel_lookup"]
            /\ UNCHANGED result
  /\ UNCHANGED << flagVars, backendVars, catalogVars, sweepVars, now, is_offline, next_query_id, sessionVars, queryVars,
                  query_locations, queries_by_timestamp, logVars, cancellation_queue,
                  known_backends, ghostVars >>

\* ------------------------------------------------------------------------
\* Cancellation pool
\* ------------------------------------------------------------------------
CancellationWork(query_id, cause, unregister) ==
  [ query_id |-> query_id, cause |-> cause, unregister |-> unregister ]

\* A pool thread takes the next work item: CancelFromThreadPool dispatches
\* to UnregisterQuery or to CancelInternal.
CancelFromThreadPool(t) ==
  /\ pc[t] = "idle"
  /\ t \in Workers
  /\ cancellation_queue # << >>
  /\ LET work == Head(cancellation_queue) IN
       loc' = [loc EXCEPT ![t] = [IdleLoc EXCEPT !.op = "CancelFromThreadPool",
                                                 !.q = work.query_id,
                                                 !.cause = work.cause,
                                                 !.unregister = work.unregister]]
  /\ cancellation_queue' = Tail(cancellation_queue)
  /\ pc' = [pc EXCEPT ![t] = "cancel_lookup"]
  /\ result' = [result EXCEPT ![t] = NoResult]
  /\ UNCHANGED << flagVars, backendVars, catalogVars, sweepVars, now, is_offline, next_query_id, sessionVars, queryVars,
                  query_locations, queries_by_timestamp, logVars, known_backends,
                  ghostVars >>

\* ------------------------------------------------------------------------
\* ExpireSessions: one pass of the session-expiration thread
\* ------------------------------------------------------------------------
\* Wake up, take session_state_map_lock_ for the whole pass, read the clock.
ExpireSessions_Wake(t) ==
  /\ pc[t] = "idle"
  /\ t = SessionExpirer
  /\ FLAGS_idle_session_timeout > 0
  /\ now >= sleep_until[t]
  /\ session_state_map_lock = NoThread
  /\ session_state_map_lock' = t
  /\ pc' = [pc EXCEPT ![t] = "expire_scan"]
  /\ loc' = [loc EXCEPT ![t] = [IdleLoc EXCEPT !.op = "ExpireSessions",
                                               !.todo = session_state_map,
                                               !.now = now]]
  /\ UNCHANGED << flagVars, backendVars, catalogVars, sweepVars, now, is_offline, next_query_id, session_state_map, sessions,
                  session_lock, queryVars, query_locations, queries_by_timestamp,
                  logVars, cancellation_queue, known_backends, result, ghostVars >>

\* ExpireSessions_Scan that expires a session even while a request has it
\* checked out.
ExpireSessions_Scan_IgnoreRefCount(t) ==
  /\ pc[t] = "expire_scan"
  /\ IF loc[t].todo = {}
       THEN \* end of the pass: SleepForMs(FLAGS_idle_session_timeout * 500)
            /\ session_state_map_lock' = NoThread
            /\ sleep_until' = [sleep_until EXCEPT
                  ![t] = now + FLAGS_idle_session_timeout * 500]
            /\ pc' = [pc EXCEPT ![t] = "idle"]
            /\ loc' = [loc EXCEPT ![t] = IdleLoc]
            /\ UNCHANGED sessions
       ELSE /\ \E s \in loc[t].todo :
                 /\ session_lock[s] = NoThread
                 /\ IF \/ sessions[s].closed
                       \/ sessions[s].expired
                       \/ loc[t].now - sessions[s].last_accessed_ms
                            <= FLAGS_idle_session_timeout * 1000
                      THEN /\ loc' = [loc EXCEPT ![t].todo = @ \ {s}]
                           /\ pc' = pc
                           /\ UNCHANGED sessions
                      ELSE /\ sessions' = [sessions EXCEPT ![s].expired = TRUE]
                           /\ loc' = [loc EXCEPT ![t].todo = @ \ {s},
                                                 ![t].inflight = sessions[s].inflight_queries]
                           /\ pc' = [pc EXCEPT ![t] =
                                 IF sessions[s].inflight_queries = {}
                                   THEN "expire_scan" ELSE "expire_offer"]
            /\ UNCHANGED << session_state_map_lock, sleep_until >>
  /\ UNCHANGED << flagVars, backendVars, catalogVars, query_expiration_lock, idle_since, now, is_offline, next_query_id, session_state_map,
                  session_lock, queryVars, query_locations, queries_by_timestamp,
                  logVars, cancellation_queue, known_backends, result, ghostVars >>

\* The next session of the map, under its lock; expire it if it is idle.
ExpireSessions_Scan(t) ==
  /\ pc[t] = "expire_scan"
  /\ IF loc[t].todo = {}
       THEN \* end of the pass: SleepForMs(FLAGS_idle_session_timeout * 500)
            /\ session_state_map_lock' = NoThread
            /\ sleep_until' = [sleep_until EXCEPT
                  ![t] = now + FLAGS_idle_session_timeout * 500]
            /\ pc' = [pc EXCEPT ![t] = "idle"]
            /\ loc' = [loc EXCEPT ![t] = IdleLoc]
            /\ UNCHANGED sessions
       ELSE /\ \E s \in loc[t].todo :
                 /\ session_lock[s] = NoThread
                 /\ IF \/ sessions[s].ref_count > 0
                       \/ sessions[s].closed
                       \/ sessions[s].expired
                       \/ loc[t].now - sessions[s].last_accessed_ms
                            <= FLAGS_idle_session_timeout * 1000
                      THEN /\ loc' = [loc EXCEPT ![t].todo = @ \ {s}]
                           /\ pc' = pc
                           /\ UNCHANGED sessions
                      ELSE /\ sessions' = [sessions EXCEPT ![s].expired = TRUE]
                           /\ loc' = [loc EXCEPT ![t].todo = @ \ {s},
                                                 ![t].inflight = sessions[s].inflight_queries]
                           /\ pc' = [pc EXCEPT ![t] =
                                 IF sessions[s].inflight_queries = {}
                                   THEN "expire_scan" ELSE "expire_offer"]
            /\ UNCHANGED << session_state_map_lock, sleep_until >>
  /\ UNCHANGED << flagVars, backendVars, catalogVars, query_expiration_lock, idle_since, now, is_offline, next_query_id, session_state_map,
                  session_lock, queryVars, query_locations, queries_by_timestamp,
                  logVars, cancellation_queue, known_backends, result, ghostVars >>

\* ExpireSessions_Offer that offers cancel-kind work (unregister = false).
ExpireSessions_Offer_CancelKind(t) ==
  /\ pc[t] = "expire_offer"
  /\ Len(cancellation_queue) < MAX_CANCELLATION_QUEUE_SIZE
  /\ \E q \in loc[t].inflight :
       /\ cancellation_queue' =
            Append(cancellation_queue, CancellationWork(q, SessionExpiredCause, FALSE))
       /\ loc' = [loc EXCEPT ![t].inflight = @ \ {q}]
       /\ pc' = [pc EXCEPT ![t] =
             IF loc[t].inflight = {q} THEN "expire_scan" ELSE "expire_offer"]
  /\ UNCHANGED << flagVars, backendVars, catalogVars, sweepVars, now, is_offline, next_query_id, sessionVars, queryVars,
                  query_locations, queries_by_timestamp, logVars, known_backends,
                  result, ghostVars >>

\* cancellation_thread_pool_->Offer(CancellationWork(query_id, status, true));
\* Offer waits while the queue is full.
ExpireSessions_Offer(t) ==
  /\ pc[t] = "expire_offer"
  /\ Len(cancellation_queue) < MAX_CANCELLATION_QUEUE_SIZE
  /\ \E q \in loc[t].inflight :
       /\ cancellation_queue' =
            Append(cancellation_queue, CancellationWork(q, SessionExpiredCause, TRUE))
       /\ loc' = [loc EXCEPT ![t].inflight = @ \ {q}]
       /\ pc' = [pc EXCEPT ![t] =
             IF loc[t].inflight = {q} THEN "expire_scan" ELSE "expire_offer"]
  /\ UNCHANGED << flagVars, backendVars, catalogVars, sweepVars, now, is_offline, next_query_id, sessionVars, queryVars,
                  query_locations, queries_by_timestamp, logVars, known_backends,
                  result, ghostVars >>

\* ------------------------------------------------------------------------
\* ExpireQueries: one pass of the query-expiration thread
\* ------------------------------------------------------------------------
\* Take query_expiration_lock_ for the whole pass, start at the first event
\* of queries_by_timestamp_, read the clock.
ExpireQueries_Wake(t) ==
  /\ pc[t] = "idle"
  /\ t = QueryExpirer
  /\ now >= sleep_until[t]
  /\ query_expiration_lock = NoThread
  /\ query_expiration_lock' = t
  /\ pc' = [pc EXCEPT ![t] = "expire_queries"]
  /\ loc' = [loc EXCEPT ![t] = [IdleLoc EXCEPT !.op = "ExpireQueries",
                                               !.todo = queries_by_timestamp,
                                               !.now = now]]
  /\ UNCHANGED << flagVars, backendVars, catalogVars, sleep_until, idle_since, now, is_offline, next_query_id,
                  sessionVars, queryVars, query_locations, queries_by_timestamp,
                  logVars, cancellation_queue, known_backends, result, ghostVars >>

\* SleepForMs(1000L) of the query-expiration thread runs out while events
\* are waiting: the clock reaches the end of the sleep.
ExpireQueries_SleepOver(t) ==
  /\ pc[t] = "idle"
  /\ t = QueryExpirer
  /\ queries_by_timestamp # {}
  /\ now < sleep_until[t]
  /\ now' = sleep_until[t]
  /\ UNCHANGED << flagVars, backendVars, catalogVars, sweepVars, is_offline, next_query_id, sessionVars, queryVars,
                  query_locations, queries_by_timestamp, logVars, cancellation_queue,
                  known_backends, pc, loc, result, ghostVars >>

\* The event the iterator points at: the earliest of those not yet visited.
FirstEvent(events) ==
  CHOOSE e \in events :
    \A f \in events : e[1] < f[1] \/ (e[1] = f[1] /\ e[2] <= f[2])

\* The pass is over: unlock, SleepForMs(1000L).
ExpireQueries_Sleep(t) ==
  /\ query_expiration_lock' = NoThread
  /\ sleep_until' = [sleep_until EXCEPT ![t] = now + QueryExpirationPollMs]
  /\ pc' = [pc EXCEPT ![t] = "idle"]
  /\ loc' = [loc EXCEPT ![t] = IdleLoc]
  /\ UNCHANGED queries_by_timestamp

\* ExpireQueries_Scan that expires a query whether or not it is in use.
ExpireQueries_Scan_IgnoreActive(t) ==
  /\ pc[t] = "expire_queries"
  /\ IF loc[t].todo = {}
       THEN ExpireQueries_Sleep(t)
     ELSE LET e == FirstEvent(loc[t].todo)
              q == e[2]
              timeout_s == EffectiveTimeout(FLAGS_idle_query_timeout,
                                            exec_states[q].query_timeout_s)
              expiration == exec_states[q].last_active + timeout_s * 1000
          IN
          IF e[1] > loc[t].now
            THEN ExpireQueries_Sleep(t)
          ELSE /\ query_exec_state_map_lock = NoThread
               /\ IF q \notin query_exec_state_map
                    THEN \* the query was deleted some other way
                         /\ queries_by_timestamp' = queries_by_timestamp \ {e}
                         /\ loc' = [loc EXCEPT ![t].todo = @ \ {e}]
                         /\ UNCHANGED << pc, query_expiration_lock, sleep_until >>
                  ELSE IF loc[t].now < expiration
                    THEN IF expiration = e[1]
                           THEN ExpireQueries_Sleep(t)
                           ELSE /\ queries_by_timestamp' =
                                     (queries_by_timestamp \ {e}) \cup {<< expiration, q >>}
                                /\ loc' = [loc EXCEPT
                                     ![t].todo = (@ \ {e}) \cup {<< expiration, q >>}]
                                /\ UNCHANGED << pc, query_expiration_lock, sleep_until >>
                  ELSE IF TRUE
                    THEN /\ pc' = [pc EXCEPT ![t] = "expire_query_offer"]
                         /\ loc' = [loc EXCEPT ![t].q = q]
                         /\ UNCHANGED << queries_by_timestamp, query_expiration_lock,
                                         sleep_until >>
                  ELSE /\ loc' = [loc EXCEPT ![t].todo = @ \ {e}]
                       /\ UNCHANGED << pc, queries_by_timestamp, query_expiration_lock,
                                       sleep_until >>
  /\ UNCHANGED << flagVars, backendVars, catalogVars, idle_since, now, is_offline, next_query_id, sessionVars,
                  queryVars, query_locations, logVars, cancellation_queue,
                  known_backends, result, ghostVars >>

\* One turn of the loop over queries_by_timestamp_.
ExpireQueries_Scan(t) ==
  /\ pc[t] = "expire_queries"
  /\ IF loc[t].todo = {}
       THEN ExpireQueries_Sleep(t)
     ELSE LET e == FirstEvent(loc[t].todo)
              q == e[2]
              timeout_s == EffectiveTimeout(FLAGS_idle_query_timeout,
                                            exec_states[q].query_timeout_s)
              expiration == exec_states[q].last_active + timeout_s * 1000
          IN
          IF e[1] > loc[t].now
            THEN ExpireQueries_Sleep(t)
          ELSE /\ query_exec_state_map_lock = NoThread
               /\ IF q \notin query_exec_state_map
                    THEN \* the query was deleted some other way
                         /\ queries_by_timestamp' = queries_by_timestamp \ {e}
                         /\ loc' = [loc EXCEPT ![t].todo = @ \ {e}]
                         /\ UNCHANGED << pc, query_expiration_lock, sleep_until >>
                  ELSE IF loc[t].now < expiration
                    THEN IF expiration = e[1]
                           THEN ExpireQueries_Sleep(t)
                           ELSE /\ queries_by_timestamp' =
                                     (queries_by_timestamp \ {e}) \cup {<< expiration, q >>}
                                /\ loc' = [loc EXCEPT
                                     ![t].todo = (@ \ {e}) \cup {<< expiration, q >>}]
                                /\ UNCHANGED << pc, query_expiration_lock, sleep_until >>
                  ELSE IF ~exec_states[q].is_active
                    THEN /\ pc' = [pc EXCEPT ![t] = "expire_query_offer"]
                         /\ loc' = [loc EXCEPT ![t].q = q]
                         /\ UNCHANGED << queries_by_timestamp, query_expiration_lock,
                                         sleep_until >>
                  ELSE /\ loc' = [loc EXCEPT ![t].todo = @ \ {e}]
                       /\ UNCHANGED << pc, queries_by_timestamp, query_expiration_lock,
                                       sleep_until >>
  /\ UNCHANGED << flagVars, backendVars, catalogVars, idle_since, now, is_offline, next_query_id, sessionVars,
                  queryVars, query_locations, logVars, cancellation_queue,
                  known_backends, result, ghostVars >>

\* ExpireQueries_Offer that offers unregister-kind work (unregister = true).
ExpireQueries_Offer_UnregisterKind(t) ==
  /\ pc[t] = "expire_query_offer"
  /\ Len(cancellation_queue) < MAX_CANCELLATION_QUEUE_SIZE
  /\ LET e == FirstEvent(loc[t].todo) IN
       /\ cancellation_queue' =
            Append(cancellation_queue, CancellationWork(e[2], QueryExpiredCause, TRUE))
       /\ queries_by_timestamp' = queries_by_timestamp \ {e}
       /\ expire_offers' = [expire_offers EXCEPT ![e[2]] = @ + 1]
       /\ loc' = [loc EXCEPT ![t].todo = @ \ {e}, ![t].q = BogusId]
  /\ pc' = [pc EXCEPT ![t] = "expire_queries"]
  /\ UNCHANGED << flagVars, backendVars, catalogVars, sweepVars, now, is_offline, next_query_id, sessionVars,
                  queryVars, query_locations, logVars, known_backends, result,
                  done_calls, archive_calls, unregister_true, ever_registered >>

\* ExpireQueries_Offer without line 1841: the event stays in queries_by_timestamp_.
ExpireQueries_Offer_KeepEvent(t) ==
  /\ pc[t] = "expire_query_offer"
  /\ Len(cancellation_queue) < MAX_CANCELLATION_QUEUE_SIZE
  /\ LET e == FirstEvent(loc[t].todo) IN
       /\ cancellation_queue' =
            Append(cancellation_queue, CancellationWork(e[2], QueryExpiredCause, FALSE))
       /\ expire_offers' = [expire_offers EXCEPT ![e[2]] = @ + 1]
       /\ loc' = [loc EXCEPT ![t].todo = @ \ {e}, ![t].q = BogusId]
  /\ pc' = [pc EXCEPT ![t] = "expire_queries"]
  /\ UNCHANGED << flagVars, backendVars, catalogVars, sweepVars, now, is_offline, next_query_id, sessionVars,
                  queryVars, query_locations, queries_by_timestamp, logVars,
                  known_backends, result, done_calls, archive_calls, unregister_true,
                  ever_registered >>

\* cancellation_thread_pool_->Offer(CancellationWork(query_id, Status(err_msg), false)),
\* then the event is erased.  Offer waits while the queue is full.
ExpireQueries_Offer(t) ==
  /\ pc[t] = "expire_query_offer"
  /\ Len(cancellation_queue) < MAX_CANCELLATION_QUEUE_SIZE
  /\ LET e == FirstEvent(loc[t].todo) IN
       /\ cancellation_queue' =
            Append(cancellation_queue, CancellationWork(e[2], QueryExpiredCause, FALSE))
       /\ queries_by_timestamp' = queries_by_timestamp \ {e}
       /\ expire_offers' = [expire_offers EXCEPT ![e[2]] = @ + 1]
       /\ loc' = [loc EXCEPT ![t].todo = @ \ {e}, ![t].q = BogusId]
  /\ pc' = [pc EXCEPT ![t] = "expire_queries"]
  /\ UNCHANGED << flagVars, backendVars, catalogVars, sweepVars, now, is_offline, next_query_id, sessionVars,
                  queryVars, query_locations, logVars, known_backends, result,
                  done_calls, archive_calls, unregister_true, ever_registered >>

\* ------------------------------------------------------------------------
\* CatalogUpdateCallback: one statestore heartbeat of the catalog topic
\* ------------------------------------------------------------------------
\* The heartbeats: whether the catalog topic is in the map, the version of
\* the CATALOG object among its entries (none: -1), whether it has other
\* entries or deletions, to_version and min_subscriber_topic_version.
NoCatalogObject == 0 - 1
AbsentDelta ==
  [ present |-> FALSE, catalog_object |-> NoCatalogObject, other_items |-> FALSE,
    to_version |-> 0, min_subscriber_topic_version |-> 0 ]
CatalogDeltas ==
  {AbsentDelta} \cup
  [ present : {TRUE},
    catalog_object : {NoCatalogObject} \cup CatalogVersions,
    other_items : BOOLEAN,
    to_version : TopicVersions,
    min_subscriber_topic_version : TopicVersions ]

UpdateCatalogCacheError == "UpdateCatalogCache failed"

\* The TTopicDelta pushed to ask the statestore for the whole topic again.
FullTopicUpdate == [ topic_name |-> "catalog-update", from_version |-> 0 ]

\* The heartbeat has entries or deletions, so that UpdateCatalogCache is
\* called.
HasUpdates(delta) == delta.catalog_object # NoCatalogObject \/ delta.other_items

\* CatalogUpdateCallback_Apply where a failed UpdateCatalogCache is treated
\* like a successful one.
CatalogUpdateCallback_Apply_InstallAnyway(delta, update_ok, catalog_service_id) ==
  /\ catalog_callback.pc = "idle"
  /\ IF ~delta.present
       THEN UNCHANGED << catalog_update_info, catalog_callback >>
     ELSE /\ catalog_callback' =
               [NoCallback EXCEPT
                  !.pc = "min_version",
                  !.min_subscriber_topic_version = delta.min_subscriber_topic_version]
          /\ IF HasUpdates(delta)
               THEN /\ catalog_version_lock = NoThread
                    /\ catalog_update_info' =
                         [ catalog_version |->
                             IF delta.catalog_object # NoCatalogObject
                               THEN delta.catalog_object
                               ELSE catalog_update_info.catalog_version,
                           catalog_topic_version |-> delta.to_version,
                           catalog_service_id |-> catalog_service_id ]
               ELSE UNCHANGED catalog_update_info
  /\ UNCHANGED << flagVars, backendVars, sweepVars, min_subscriber_catalog_topic_version,
                  catalog_version_lock, catalog_version_update_cv, catalog_call,
                  now, is_offline, next_query_id, sessionVars, queryVars,
                  query_locations, queries_by_timestamp, logVars, cancellation_queue,
                  known_backends, pc, loc, result, ghostVars >>

\* From the lookup of the topic to the update of catalog_update_info_.
\* update_ok and catalog_service_id are the frontend's answer to
\* UpdateCatalogCache, which is called with no lock held.  On an error a
\* full-topic request is pushed and LibCache::DropCache() called; on success
\* the three fields are written under catalog_version_lock_.
CatalogUpdateCallback_Apply(delta, update_ok, catalog_service_id) ==
  /\ catalog_callback.pc = "idle"
  /\ IF ~delta.present
       THEN UNCHANGED << catalog_update_info, catalog_callback >>
     ELSE IF HasUpdates(delta) /\ ~update_ok
       THEN /\ catalog_callback' =
                 [ pc |-> "min_version",
                   min_subscriber_topic_version |-> delta.min_subscriber_topic_version,
                   subscriber_topic_updates |-> << FullTopicUpdate >>,
                   drop_cache |-> TRUE ]
            /\ UNCHANGED catalog_update_info
     ELSE /\ catalog_callback' =
               [NoCallback EXCEPT
                  !.pc = "min_version",
                  !.min_subscriber_topic_version = delta.min_subscriber_topic_version]
          /\ IF HasUpdates(delta)
               THEN LET new_catalog_version ==
                          IF delta.catalog_object # NoCatalogObject
                            THEN delta.catalog_object
                            ELSE catalog_update_info.catalog_version
                    IN /\ catalog_version_lock = NoThread
                       /\ catalog_update_info' =
                            [ catalog_version |-> new_catalog_version,
                              catalog_topic_version |-> delta.to_version,
                              catalog_service_id |-> catalog_service_id ]
               ELSE UNCHANGED catalog_update_info
  /\ UNCHANGED << flagVars, backendVars, sweepVars, min_subscriber_catalog_topic_version,
                  catalog_version_lock, catalog_version_update_cv, catalog_call,
                  now, is_offline, next_query_id, sessionVars, queryVars,
                  query_locations, queries_by_timestamp, logVars, cancellation_queue,
                  known_backends, pc, loc, result, ghostVars >>

\* "Always update the minimum subscriber version for the catalog topic."
CatalogUpdateCallback_MinVersion ==
  /\ catalog_callback.pc = "min_version"
  /\ catalog_version_lock = NoThread
  /\ min_subscriber_catalog_topic_version' = catalog_callback.min_subscriber_topic_version
  /\ catalog_callback' = [catalog_callback EXCEPT !.pc = "notify"]
  /\ UNCHANGED << flagVars, backendVars, sweepVars, catalog_update_info, catalog_version_lock,
                  catalog_version_update_cv, catalog_call,
                  now, is_offline, next_query_id, sessionVars, queryVars,
                  query_locations, queries_by_timestamp, logVars, cancellation_queue,
                  known_backends, pc, loc, result, ghostVars >>

\* CatalogUpdateCallback_Notify without catalog_version_update_cv_.notify_all().
CatalogUpdateCallback_Notify_Nobody ==
  /\ catalog_callback.pc = "notify"
  /\ catalog_callback' = NoCallback
  /\ UNCHANGED << flagVars, backendVars, sweepVars, catalog_update_info,
                  min_subscriber_catalog_topic_version, catalog_version_lock,
                  catalog_version_update_cv, catalog_call,
                  now, is_offline, next_query_id, sessionVars, queryVars,
                  query_locations, queries_by_timestamp, logVars, cancellation_queue,
                  known_backends, pc, loc, result, ghostVars >>

\* catalog_version_update_cv_.notify_all(), and the callback returns.
CatalogUpdateCallback_Notify ==
  /\ catalog_callback.pc = "notify"
  /\ catalog_version_update_cv' = {}
  /\ catalog_callback' = NoCallback
  /\ UNCHANGED << flagVars, backendVars, sweepVars, catalog_update_info,
                  min_subscriber_catalog_topic_version, catalog_version_lock,
                  catalog_call,
                  now, is_offline, next_query_id, sessionVars, queryVars,
                  query_locations, queries_by_timestamp, logVars, cancellation_queue,
                  known_backends, pc, loc, result, ghostVars >>

\* ------------------------------------------------------------------------
\* ProcessCatalogUpdateResult(catalog_update_result, wait_for_all_subscribers)
\* ------------------------------------------------------------------------
\* The call: with an object in the result and no wait for the subscribers
\* the frontend applies it and its status is returned; otherwise the caller
\* takes catalog_version_lock_.
ProcessCatalogUpdateResult(t, version, catalog_service_id, has_object, wait, update_ok) ==
  /\ pc[t] = "idle"
  /\ t \in Clients
  /\ catalog_call' = [catalog_call EXCEPT ![t] =
       [NoCatalogCall EXCEPT
          !.version = version,
          !.catalog_service_id = catalog_service_id,
          !.has_object = has_object,
          !.wait_for_all_subscribers = wait]]
  /\ IF has_object /\ ~wait
       THEN /\ Finish(t, "ProcessCatalogUpdateResult", BogusId,
                      IF update_ok THEN OK ELSE UpdateCatalogCacheError)
            /\ UNCHANGED catalog_version_lock
     ELSE /\ catalog_version_lock = NoThread
          /\ catalog_version_lock' = t
          /\ pc' = [pc EXCEPT ![t] = "catalog_version_check"]
          /\ loc' = [loc EXCEPT ![t] = [IdleLoc EXCEPT !.op = "ProcessCatalogUpdateResult"]]
          /\ result' = [result EXCEPT ![t] = NoResult]
  /\ UNCHANGED << flagVars, backendVars, sweepVars, catalog_update_info,
                  min_subscriber_catalog_topic_version, catalog_version_update_cv,
                  catalog_callback,
                  now, is_offline, next_query_id, sessionVars, queryVars,
                  query_locations, queries_by_timestamp, logVars, cancellation_queue,
                  known_backends, ghostVars >>

\* catalog_version_update_cv_.wait(unique_lock): unlock and block.
WaitOnCv(t, wait_pc) ==
  /\ catalog_version_lock' = NoThread
  /\ catalog_version_update_cv' = catalog_version_update_cv \cup {t}
  /\ catalog_call' = [catalog_call EXCEPT
       ![t].waited = @ \/ wait_pc = "catalog_version_wait"]
  /\ pc' = [pc EXCEPT ![t] = wait_pc]
  /\ UNCHANGED << loc, result >>

\* return Status::OK; the unique_lock unlocks.
ReturnFromBarrier(t) ==
  /\ catalog_version_lock' = NoThread
  /\ Finish(t, "ProcessCatalogUpdateResult", BogusId, OK)
  /\ UNCHANGED << catalog_version_update_cv, catalog_call >>

\* The first loop's test, under the lock: wait for the update to be
\* processed locally.
ProcessCatalogUpdateResult_Version(t) ==
  /\ pc[t] = "catalog_version_check"
  /\ IF /\ catalog_update_info.catalog_version < catalog_call[t].version
        /\ catalog_update_info.catalog_service_id = catalog_call[t].catalog_service_id
       THEN WaitOnCv(t, "catalog_version_wait")
     ELSE IF ~catalog_call[t].wait_for_all_subscribers
       THEN ReturnFromBarrier(t)
     ELSE /\ catalog_call' = [catalog_call EXCEPT
               ![t].min_req_subscriber_topic_version =
                  catalog_update_info.catalog_topic_version]
          /\ pc' = [pc EXCEPT ![t] = "catalog_subscriber_check"]
          /\ UNCHANGED << catalog_version_lock, catalog_version_update_cv, loc, result >>
  /\ UNCHANGED << flagVars, backendVars, sweepVars, catalog_update_info,
                  min_subscriber_catalog_topic_version, catalog_callback,
                  now, is_offline, next_query_id, sessionVars, queryVars,
                  query_locations, queries_by_timestamp, logVars, cancellation_queue,
                  known_backends, ghostVars >>

\* ProcessCatalogUpdateResult_Subscribers without the second loop.
ProcessCatalogUpdateResult_Subscribers_NoWait(t) ==
  /\ pc[t] = "catalog_subscriber_check"
  /\ ReturnFromBarrier(t)
  /\ UNCHANGED << flagVars, backendVars, sweepVars, catalog_update_info,
                  min_subscriber_catalog_topic_version, catalog_callback,
                  now, is_offline, next_query_id, sessionVars, queryVars,
                  query_locations, queries_by_timestamp, logVars, cancellation_queue,
                  known_backends, ghostVars >>

\* The second loop's test, under the lock: wait for the update to reach all
\* subscribers of the catalog topic.
ProcessCatalogUpdateResult_Subscribers(t) ==
  /\ pc[t] = "catalog_subscriber_check"
  /\ IF /\ min_subscriber_catalog_topic_version <
             catalog_call[t].min_req_subscriber_topic_version
        /\ catalog_update_info.catalog_service_id = catalog_call[t].catalog_service_id
       THEN WaitOnCv(t, "catalog_subscriber_wait")
       ELSE ReturnFromBarrier(t)
  /\ UNCHANGED << flagVars, backendVars, sweepVars, catalog_update_info,
                  min_subscriber_catalog_topic_version, catalog_callback,
                  now, is_offline, next_query_id, sessionVars, queryVars,
                  query_locations, queries_by_timestamp, logVars, cancellation_queue,
                  known_backends, ghostVars >>

\* A notified waiter takes the lock again and goes back to its loop's test.
ProcessCatalogUpdateResult_Woken(t) ==
  /\ pc[t] \in {"catalog_version_wait", "catalog_subscriber_wait"}
  /\ t \notin catalog_version_update_cv
  /\ catalog_version_lock = NoThread
  /\ catalog_version_lock' = t
  /\ pc' = [pc EXCEPT ![t] = IF pc[t] = "catalog_version_wait"
                               THEN "catalog_version_check"
                               ELSE "catalog_subscriber_check"]
  /\ UNCHANGED << flagVars, backendVars, sweepVars, catalog_update_info,
                  min_subscriber_catalog_topic_version, catalog_version_update_cv,
                  catalog_callback, catalog_call,
                  now, is_offline, next_query_id, sessionVars, queryVars,
                  query_locations, queries_by_timestamp, logVars, cancellation_queue,
                  known_backends, loc, result, ghostVars >>

\* ------------------------------------------------------------------------
\* ExecPlanFragment: StartPlanFragmentExecution, RunExecPlanFragment
\* ------------------------------------------------------------------------
MissingSinkError == "missing sink in plan fragment"
PrepareError == "Prepare failed"
UnknownFragmentError == "unknown fragment id"

\* The process has died (a failed check, a crash).
Aborted == \E t \in Threads : pc[t] = "aborted"

\* The FragmentExecState the next ExecPlanFragment constructs.
NewFragmentObj ==
  CHOOSE o \in FragmentObjs :
    /\ fragment_states[o].prepare = "none"
    /\ \A x \in FragmentObjs : fragment_states[x].prepare = "none" => o <= x

\* Some shared_ptr still points to the object: the map's or an RPC thread's.
Referenced(o) ==
  \/ \E id \in FragmentIds : fragment_exec_state_map[id] = o
  \/ \E t \in Clients : fragment_call[t].exec_state = o

\* The object was constructed and its last shared_ptr is gone: it is deleted.
Destroyed(o) == fragment_states[o].prepare # "none" /\ ~Referenced(o)

\* StartPlanFragmentExecution that registers the state before Prepare().
StartPlanFragmentExecution_RegisterFirst(t, id, has_sink) ==
  /\ pc[t] = "idle"
  /\ t \in Clients
  /\ \E o \in FragmentObjs : fragment_states[o].prepare = "none"
  /\ IF ~has_sink
       THEN /\ Finish(t, "ExecPlanFragment", BogusId, MissingSinkError)
            /\ UNCHANGED fragmentVars
     ELSE /\ fragment_states' = [fragment_states EXCEPT ![NewFragmentObj] =
               [NoFragmentExecState EXCEPT !.fragment_instance_id = id,
                                           !.prepare = "running"]]
          /\ fragment_call' = [fragment_call EXCEPT ![t] =
               [fragment_instance_id |-> id, exec_state |-> NewFragmentObj]]
          /\ fragment_exec_state_map' =
               IF fragment_exec_state_map[id] = NoFragment
                 THEN [fragment_exec_state_map EXCEPT ![id] = NewFragmentObj]
                 ELSE fragment_exec_state_map
          /\ pc' = [pc EXCEPT ![t] = "fragment_prepare"]
          /\ loc' = [loc EXCEPT ![t] = [IdleLoc EXCEPT !.op = "ExecPlanFragment"]]
          /\ result' = [result EXCEPT ![t] = NoResult]
  /\ UNCHANGED << flagVars, sweepVars, catalogVars, coordinatorVars, reportVars, authVars, streamVars, connVars >>

\* The sink test, the new FragmentExecState and the call of Prepare().
StartPlanFragmentExecution(t, id, has_sink) ==
  /\ pc[t] = "idle"
  /\ t \in Clients
  /\ \E o \in FragmentObjs : fragment_states[o].prepare = "none"
  /\ IF ~has_sink
       THEN /\ Finish(t, "ExecPlanFragment", BogusId, MissingSinkError)
            /\ UNCHANGED fragmentVars
     ELSE /\ fragment_states' = [fragment_states EXCEPT ![NewFragmentObj] =
               [NoFragmentExecState EXCEPT !.fragment_instance_id = id,
                                           !.prepare = "running"]]
          /\ fragment_call' = [fragment_call EXCEPT ![t] =
               [fragment_instance_id |-> id, exec_state |-> NewFragmentObj]]
          /\ pc' = [pc EXCEPT ![t] = "fragment_prepare"]
          /\ loc' = [loc EXCEPT ![t] = [IdleLoc EXCEPT !.op = "ExecPlanFragment"]]
          /\ result' = [result EXCEPT ![t] = NoResult]
          /\ UNCHANGED fragment_exec_state_map
  /\ UNCHANGED << flagVars, sweepVars, catalogVars, coordinatorVars, reportVars, authVars, streamVars, connVars >>

\* RETURN_IF_ERROR(exec_state->Prepare(exec_params)): Prepare() returns.
StartPlanFragmentExecution_Prepare(t, prepare_ok) ==
  /\ pc[t] = "fragment_prepare"
  /\ LET o == fragment_call[t].exec_state IN
       IF prepare_ok
         THEN /\ fragment_states' = [fragment_states EXCEPT ![o].prepare = "ok"]
              /\ pc' = [pc EXCEPT ![t] = "fragment_register"]
              /\ UNCHANGED << fragment_call, loc, result >>
         ELSE /\ fragment_states' = [fragment_states EXCEPT ![o].prepare = "failed"]
              /\ fragment_call' = [fragment_call EXCEPT ![t] = NoFragmentCall]
              /\ Finish(t, "ExecPlanFragment", BogusId, PrepareError)
  /\ UNCHANGED << flagVars, sweepVars, catalogVars, coordinatorVars, reportVars, authVars, streamVars, connVars,
                  fragment_exec_state_map >>

\* fragment_exec_state_map_.insert(make_pair(id, exec_state)) under the map
\* lock: insert() leaves an entry that is already there as it is.
StartPlanFragmentExecution_Register(t) ==
  /\ pc[t] = "fragment_register"
  /\ LET o == fragment_call[t].exec_state
         id == fragment_call[t].fragment_instance_id
     IN /\ fragment_exec_state_map' =
             IF fragment_exec_state_map[id] = NoFragment
               THEN [fragment_exec_state_map EXCEPT ![id] = o]
               ELSE fragment_exec_state_map
        /\ fragment_states' = [fragment_states EXCEPT ![o].registered = TRUE]
  /\ pc' = [pc EXCEPT ![t] = "fragment_thread"]
  /\ UNCHANGED << flagVars, sweepVars, catalogVars, coordinatorVars, reportVars, authVars, streamVars, connVars,
                  fragment_call, loc, result >>

\* set_exec_thread(new Thread(... RunExecPlanFragment, this, exec_state.get()))
\* and return: the local shared_ptr goes.
StartPlanFragmentExecution_Thread(t) ==
  /\ pc[t] = "fragment_thread"
  /\ fragment_states' =
       [fragment_states EXCEPT ![fragment_call[t].exec_state].exec_thread = "running"]
  /\ fragment_call' = [fragment_call EXCEPT ![t] = NoFragmentCall]
  /\ Finish(t, "ExecPlanFragment", BogusId, OK)
  /\ UNCHANGED << flagVars, sweepVars, catalogVars, coordinatorVars, reportVars, authVars, streamVars, connVars,
                  fragment_exec_state_map >>

\* exec_state->Exec() returns in the exec thread of object o.  The thread
\* has a plain pointer: on a deleted object the call may also crash.
RunExecPlanFragment_Exec(o, crash) ==
  /\ ~Aborted
  /\ fragment_states[o].exec_thread = "running"
  /\ IF Destroyed(o) /\ crash
       THEN /\ pc' = [x \in Threads |-> "aborted"]
            /\ UNCHANGED fragment_states
       ELSE /\ fragment_states' = [fragment_states EXCEPT ![o].exec_thread = "exec_done"]
            /\ UNCHANGED pc
  /\ UNCHANGED << flagVars, sweepVars, catalogVars, coordinatorVars, reportVars, authVars, streamVars, connVars,
                  fragment_exec_state_map, fragment_call, loc, result >>

\* "we're done with this plan fragment": find the entry of
\* exec_state->fragment_instance_id() and erase it, then the thread ends.
\* Read from a deleted object the id is whatever the memory holds (id_read).
RunExecPlanFragment_Exit(o, id_read) ==
  /\ ~Aborted
  /\ fragment_states[o].exec_thread = "exec_done"
  /\ LET id == IF Destroyed(o) THEN id_read ELSE fragment_states[o].fragment_instance_id
     IN fragment_exec_state_map' = [fragment_exec_state_map EXCEPT ![id] = NoFragment]
  /\ fragment_states' = [fragment_states EXCEPT ![o].exec_thread = "exited"]
  /\ UNCHANGED << flagVars, sweepVars, catalogVars, coordinatorVars, reportVars, authVars, streamVars, connVars,
                  fragment_call, pc, loc, result >>

\* ------------------------------------------------------------------------
\* CancelPlanFragment
\* ------------------------------------------------------------------------
\* GetFragmentExecState(id): the lookup under the map lock.
CancelPlanFragment(t, id) ==
  /\ pc[t] = "idle"
  /\ t \in Clients
  /\ IF fragment_exec_state_map[id] = NoFragment
       THEN /\ Finish(t, "CancelPlanFragment", BogusId, UnknownFragmentError)
            /\ UNCHANGED fragment_call
       ELSE /\ fragment_call' = [fragment_call EXCEPT ![t] =
                 [fragment_instance_id |-> id,
                  exec_state |-> fragment_exec_state_map[id]]]
            /\ pc' = [pc EXCEPT ![t] = "fragment_cancel"]
            /\ loc' = [loc EXCEPT ![t] = [IdleLoc EXCEPT !.op = "CancelPlanFragment"]]
            /\ result' = [result EXCEPT ![t] = NoResult]
  /\ UNCHANGED << flagVars, sweepVars, catalogVars, coordinatorVars, reportVars, authVars, streamVars, connVars,
                  fragment_exec_state_map, fragment_states >>

\* exec_state->Cancel().SetTStatus(&return_val)
CancelPlanFragment_Cancel(t) ==
  /\ pc[t] = "fragment_cancel"
  /\ fragment_states' =
       [fragment_states EXCEPT ![fragment_call[t].exec_state].cancelled = TRUE]
  /\ fragment_call' = [fragment_call EXCEPT ![t] = NoFragmentCall]
  /\ Finish(t, "CancelPlanFragment", BogusId, OK)
  /\ UNCHANGED << flagVars, sweepVars, catalogVars, coordinatorVars, reportVars, authVars, streamVars, connVars,
                  fragment_exec_state_map >>

\* ------------------------------------------------------------------------
\* ReportExecStatus
\* ------------------------------------------------------------------------
ReportUnknownQueryError == "ReportExecStatus(): Received report for unknown query ID"

\* What Coordinator::UpdateFragmentExecStatus may return.
UpdateFragmentExecStatusResults == {OK, ExecutionError}

\* GetQueryExecState(query_id, false) under the map lock, then
\* exec_state->coord()->UpdateFragmentExecStatus(params).  coord() is NULL
\* until Exec() has made a coordinator, and stays NULL for a query without
\* one: the call through it is undefined, the process dies (crash) or the
\* call comes back with some status and no coordinator has the report.
ReportExecStatus(t, q, status, crash) ==
  /\ pc[t] = "idle"
  /\ t \in Clients
  /\ query_exec_state_map_lock = NoThread
  /\ IF q \notin query_exec_state_map
       THEN /\ Finish(t, "ReportExecStatus", q, ReportUnknownQueryError)
            /\ UNCHANGED coord_reports
     ELSE IF exec_states[q].coord
       THEN /\ coord_reports' = coord_reports \cup {q}
            /\ Finish(t, "ReportExecStatus", q, status)
     ELSE IF crash
       THEN /\ pc' = [x \in Threads |-> "aborted"]
            /\ UNCHANGED << coord_reports, loc, result >>
     ELSE /\ Finish(t, "ReportExecStatus", q, status)
          /\ UNCHANGED coord_reports
  /\ UNCHANGED << flagVars, sweepVars, catalogVars, coordinatorVars, fragmentVars, authVars, streamVars, connVars >>

\* ------------------------------------------------------------------------
\* TransmitData
\* ------------------------------------------------------------------------
\* if (num_rows > 0) AddData(...); a failed AddData returns its status at
\* once ("should we close the channel here as well?").
TransmitData(t, snd, num_rows, eos, add_status) ==
  /\ pc[t] = "idle"
  /\ t \in Clients
  /\ stream_mgr[snd].batches < MaxBatches
  /\ LET call == [ sender |-> snd, num_rows |-> num_rows, eos |-> eos,
                   add_data |-> num_rows > 0, close_sender |-> FALSE ]
         status == IF num_rows > 0 THEN add_status ELSE OK
     IN /\ transmit_call' = [transmit_call EXCEPT ![t] = call]
        /\ stream_mgr' =
             IF num_rows > 0 /\ add_status = OK
               THEN [stream_mgr EXCEPT ![snd].batches = @ + 1]
               ELSE stream_mgr
        /\ IF status = OK /\ eos
             THEN /\ pc' = [pc EXCEPT ![t] = "transmit_close"]
                  /\ loc' = [loc EXCEPT ![t] = [IdleLoc EXCEPT !.op = "TransmitData"]]
                  /\ result' = [result EXCEPT ![t] = NoResult]
             ELSE Finish(t, "TransmitData", BogusId, status)
  /\ UNCHANGED << flagVars, sweepVars, catalogVars, coordinatorVars, fragmentVars,
                  reportVars, authVars, connVars >>

\* if (eos) CloseSender(...).SetTStatus(&return_val)
TransmitData_CloseSender(t, close_status) ==
  /\ pc[t] = "transmit_close"
  /\ transmit_call' = [transmit_call EXCEPT ![t].close_sender = TRUE]
  /\ stream_mgr' = [stream_mgr EXCEPT ![transmit_call[t].sender].closed = TRUE]
  /\ Finish(t, "TransmitData", BogusId, close_status)
  /\ UNCHANGED << flagVars, sweepVars, catalogVars, coordinatorVars, fragmentVars,
                  reportVars, authVars, connVars >>

\* ------------------------------------------------------------------------
\* AuthorizeProxyUser
\* ------------------------------------------------------------------------
AuthorizeProxyUser(t, user, do_as_user) ==
  /\ pc[t] = "idle"
  /\ authorize_call' = [ user |-> user, do_as_user |-> do_as_user ]
  /\ Finish(t, "AuthorizeProxyUser", BogusId,
            AuthorizeProxyUserStatus(authorized_proxy_user_config, user, do_as_user))
  /\ UNCHANGED << flagVars, sweepVars, catalogVars, coordinatorVars, fragmentVars,
                  reportVars, streamVars, connVars >>

\* ------------------------------------------------------------------------
\* MembershipCallback: one statestore heartbeat of the membership topic
\* ------------------------------------------------------------------------
UnreachableMsg(failed) ==
  IF failed = {"h1"} THEN "Cancelled due to unreachable impalad(s): h1"
  ELSE IF failed = {"h2"} THEN "Cancelled due to unreachable impalad(s): h2"
  ELSE "Cancelled due to unreachable impalad(s): h1, h2"

\* The ids of a set in ascending order (iteration of a std::map keyed by id).
RECURSIVE Ascending(_)
Ascending(S) ==
  IF S = {} THEN << >>
  ELSE LET m == CHOOSE x \in S : \A y \in S : x <= y
       IN << m >> \o Ascending(S \ {m})

RECURSIVE CancelWorkFor(_, _)
CancelWorkFor(ids, failed_hosts) ==
  IF ids = << >> THEN << >>
  ELSE << CancellationWork(Head(ids), UnreachableMsg(failed_hosts[Head(ids)]), FALSE) >>
         \o CancelWorkFor(Tail(ids), failed_hosts)

MembershipCallback(is_delta, topic_entries, topic_deletions) ==
  LET known == ((IF is_delta THEN known_backends ELSE {}) \cup topic_entries)
                  \ topic_deletions
      current_membership == known
      failed == {h \in DOMAIN query_locations : h \notin current_membership}
      to_cancel == UNION {query_locations[h] : h \in failed}
      failed_hosts == [q \in to_cancel |-> {h \in failed : q \in query_locations[h]}]
  IN
  /\ known_backends' = known
  /\ query_locations' = [h \in (DOMAIN query_locations) \ failed |-> query_locations[h]]
  /\ cancellation_queue' =
       IF Len(cancellation_queue) + Cardinality(to_cancel) > MAX_CANCELLATION_QUEUE_SIZE
         THEN cancellation_queue
         ELSE cancellation_queue \o CancelWorkFor(Ascending(to_cancel), failed_hosts)
  /\ UNCHANGED << flagVars, backendVars, catalogVars, sweepVars, now, is_offline, next_query_id, sessionVars, queryVars,
                  queries_by_timestamp, logVars, pc, loc, result, ghostVars >>

\* ------------------------------------------------------------------------
\* Specifications
\* ------------------------------------------------------------------------
\* The inputs of a run: how many queries are issued, the query_timeout_s
\* options, the schedules (coordinator or not, hosts) the planner produces,
\* the handles clients present.
Inputs(limit, timeouts, coords, hostsets, handles) ==
  [ limit |-> limit, timeouts |-> timeouts, coords |-> coords, hostsets |-> hostsets,
    handles |-> handles ]

\* A client thread running a query: check the session out, Execute, check
\* it back in.
ExecuteStep(t, in) ==
  \/ \E s \in SessionIds : GetSessionState(t, s, in.limit)
  \/ \E timeout \in in.timeouts : ExecuteStart(t, timeout)
  \/ RegisterQuery_Session(t)
  \/ RegisterQuery_Insert(t)
  \/ RegisterQuery_Timeout(t)
  \/ \E plan_ok \in BOOLEAN, coord \in in.coords, hosts \in in.hostsets :
       ExecuteInternal_Plan(t, plan_ok, coord, hosts)
  \/ \E exec_ok \in BOOLEAN : ExecuteInternal_Exec(t, exec_ok)
  \/ ExecuteInternal_Locations(t)
  \/ MarkSessionInactive(t)

\* A client thread cancelling or closing a query by its handle.
HandleStep(t, in) ==
  \/ \E q \in in.handles : ClientCancel(t, q)
  \/ \E q \in in.handles : ClientUnregister(t, q)

\* A client thread closing a session.
CloseSessionStep(t) ==
  \/ \E s \in SessionIds, ignore \in BOOLEAN : CloseSessionInternal_Find(t, s, ignore)
  \/ CloseSessionInternal_Mark(t)
  \/ CloseSessionInternal_Loop(t)

\* A client thread asking for a query's profile.
ProfileStep(t) ==
  \/ \E q \in QueryIds \cup {BogusId}, b \in BOOLEAN : ClientProfile(t, q, b)
  \/ GetRuntimeProfileStr_Live(t)
  \/ GetRuntimeProfileStr_Log(t)

\* The steps inside CancelInternal and UnregisterQuery, whoever called them.
LifecycleStep(t) ==
  \/ GetQueryExecState_Lock(t)
  \/ GetQueryExecState_Wait(t)
  \/ CancelInternal_Cancel(t)
  \/ UnregisterQuery_Erase(t)
  \/ UnregisterQuery_Done(t)
  \/ UnregisterQuery_Locations(t)
  \/ ArchiveQuery(t)

\* The same steps where no two threads work on one query at a time.
UncontendedLifecycleStep(t) ==
  \/ GetQueryExecState_Lock(t)
  \/ CancelInternal_Cancel(t)
  \/ UnregisterQuery_Erase(t)
  \/ UnregisterQuery_Done(t)
  \/ UnregisterQuery_Locations(t)
  \/ ArchiveQuery(t)

ConcurrentInputs == Inputs(MaxConcurrentQueries, {1}, {TRUE}, {{"h1"}}, QueryIds)
SeqInputs == Inputs(MaxQueries, {1}, {TRUE}, {{"h1"}}, QueryIds \cup {BogusId})
PoolInputs == Inputs(MaxConcurrentQueries, {1}, {TRUE}, {{"h1", "h2"}}, {})

\* Spec: two client threads working concurrently on one session.
Init == Constructed({1})

Next ==
  \/ \E s \in SessionIds : ConnectionStart(s)
  \/ \E t \in Clients : ExecuteStep(t, ConcurrentInputs)
  \/ \E t \in Clients : HandleStep(t, ConcurrentInputs)
  \/ \E t \in Clients : CloseSessionStep(t)
  \/ \E t \in Clients : LifecycleStep(t)

Spec == Init /\ [][Next]_vars

\* SpecSeq: one client thread, every --query_log_size.
InitSeq == Constructed(QueryLogSizes)

NextSeq ==
  \/ \E s \in SessionIds : ConnectionStart(s)
  \/ ExecuteStep("c1", SeqInputs)
  \/ HandleStep("c1", SeqInputs)
  \/ CloseSessionStep("c1")
  \/ ProfileStep("c1")
  \/ GetQueryExecState_Lock("c1")
  \/ CancelInternal_Cancel("c1")
  \/ UnregisterQuery_Erase("c1")
  \/ UnregisterQuery_Done("c1")
  \/ UnregisterQuery_Locations("c1")
  \/ ArchiveQuery("c1")

SpecSeq == InitSeq /\ [][NextSeq]_vars

\* The membership topic's updates: the full topic, or backend h2 leaving.
TopicDeltas ==
  { [is_delta |-> FALSE, topic_entries |-> Hosts, topic_deletions |-> {}],
    [is_delta |-> TRUE, topic_entries |-> {}, topic_deletions |-> {"h2"}] }

\* SpecPool: a client thread, the cancellation pool, the session sweeper and
\* the membership callback, with time passing.
InitPool == Constructed({1})

NextPool ==
  \/ Tick
  \/ \E s \in SessionIds : ConnectionStart(s)
  \/ ExecuteStep("c1", PoolInputs)
  \/ CloseSessionStep("c1")
  \/ \E t \in {"c1"} \cup Workers : LifecycleStep(t)
  \/ \E t \in Workers : CancelFromThreadPool(t)
  \/ ExpireSessions_Wake(SessionExpirer)
  \/ ExpireSessions_Scan(SessionExpirer)
  \/ ExpireSessions_Offer(SessionExpirer)
  \/ \E delta \in TopicDeltas :
       MembershipCallback(delta.is_delta, delta.topic_entries, delta.topic_deletions)

SpecPool == InitPool /\ [][NextPool]_vars

\* The membership topic's updates when either backend can leave.
FailureDeltas ==
  TopicDeltas \cup
    { [is_delta |-> TRUE, topic_entries |-> {}, topic_deletions |-> {"h1"}] }

\* SpecMember: SpecPool with either backend leaving the membership, so that
\* the pool's queue fills up.
InitMember == Constructed({1})

NextMember ==
  \/ Tick
  \/ \E s \in SessionIds : ConnectionStart(s)
  \/ ExecuteStep("c1", PoolInputs)
  \/ CloseSessionStep("c1")
  \/ \E t \in {"c1"} \cup Workers : LifecycleStep(t)
  \/ \E t \in Workers : CancelFromThreadPool(t)
  \/ ExpireSessions_Wake(SessionExpirer)
  \/ ExpireSessions_Scan(SessionExpirer)
  \/ ExpireSessions_Offer(SessionExpirer)
  \/ \E delta \in FailureDeltas :
       MembershipCallback(delta.is_delta, delta.topic_entries, delta.topic_deletions)

SpecMember == InitMember /\ [][NextMember]_vars

\* The steps of an Execute that has started.
ExecuteInProgress(t, in) ==
  \/ \E timeout \in in.timeouts : ExecuteStart(t, timeout)
  \/ RegisterQuery_Session(t)
  \/ RegisterQuery_Insert(t)
  \/ RegisterQuery_Timeout(t)
  \/ \E plan_ok \in BOOLEAN, coord \in in.coords, hosts \in in.hostsets :
       ExecuteInternal_Plan(t, plan_ok, coord, hosts)
  \/ \E exec_ok \in BOOLEAN : ExecuteInternal_Exec(t, exec_ok)
  \/ ExecuteInternal_Locations(t)
  \/ MarkSessionInactive(t)

\* One pass of the query-expiration thread.
\* A client request on a query it holds a handle of (a fetch) begins: the
\* query is in use and its idle time starts anew.
MarkActive(q) ==
  /\ q \in query_exec_state_map
  /\ ~exec_states[q].is_active
  /\ \A t \in Clients : pc[t] = "idle"
  /\ exec_states' = [exec_states EXCEPT ![q].is_active = TRUE, ![q].last_active = now]
  /\ UNCHANGED << flagVars, backendVars, catalogVars, sweepVars, now, is_offline,
                  next_query_id, sessionVars, query_exec_state_map, exec_state_lock,
                  query_exec_state_map_lock, query_locations, queries_by_timestamp,
                  logVars, cancellation_queue, known_backends, pc, loc, result,
                  ghostVars >>

\* The request ends: the query is idle from now on.
MarkInactive(q) ==
  /\ exec_states[q].is_active
  /\ exec_states' = [exec_states EXCEPT ![q].is_active = FALSE, ![q].last_active = now]
  /\ UNCHANGED << flagVars, backendVars, catalogVars, sweepVars, now, is_offline,
                  next_query_id, sessionVars, query_exec_state_map, exec_state_lock,
                  query_exec_state_map_lock, query_locations, queries_by_timestamp,
                  logVars, cancellation_queue, known_backends, pc, loc, result,
                  ghostVars >>

ExpireQueriesStep ==
  \/ ExpireQueries_SleepOver(QueryExpirer)
  \/ ExpireQueries_Wake(QueryExpirer)
  \/ ExpireQueries_Scan(QueryExpirer)
  \/ ExpireQueries_Offer(QueryExpirer)

\* SpecExpire: a client running queries with a timeout and closing them, the
\* query sweeper and the cancellation pool; time passes while the sweeper
\* sleeps.  Every thread that can run eventually runs.
InitExpire == Constructed({1})

NextExpire ==
  \/ \E s \in SessionIds : ConnectionStart(s)
  \/ ExecuteStep("c1", PoolInputs)
  \/ \E q \in QueryIds : ClientUnregister("c1", q)
  \/ \E t \in {"c1"} \cup Workers : LifecycleStep(t)
  \/ \E t \in Workers : CancelFromThreadPool(t)
  \/ ExpireQueriesStep

SpecExpire ==
  /\ InitExpire /\ [][NextExpire]_vars
  /\ WF_vars(ExecuteInProgress("c1", PoolInputs))
  /\ \A t \in {"c1"} \cup Workers : WF_vars(LifecycleStep(t))
  /\ \A t \in Workers : WF_vars(CancelFromThreadPool(t))
  /\ WF_vars(ExpireQueriesStep)

\* SpecSweep: a client running a query with a timeout of one second, using
\* it now and then and closing it, the query sweeper on the clock and the
\* cancellation pool.
SweepInputs == Inputs(1, {1}, {TRUE}, {{"h1"}}, {})

InitSweep == Constructed({1})

NextSweep ==
  \/ Advance({QueryExpirer})
  \/ \E s \in SessionIds : ConnectionStart(s)
  \/ ExecuteStep("c1", SweepInputs)
  \/ \E q \in QueryIds : MarkActive(q)
  \/ \E q \in QueryIds : MarkInactive(q)
  \/ \E q \in QueryIds : ClientUnregister("c1", q)
  \/ \E t \in {"c1"} \cup Workers : LifecycleStep(t)
  \/ \E t \in Workers : CancelFromThreadPool(t)
  \/ ExpireQueries_Wake(QueryExpirer)
  \/ ExpireQueries_Scan(QueryExpirer)
  \/ ExpireQueries_Offer(QueryExpirer)

SpecSweep == InitSweep /\ [][NextSweep]_vars

\* SpecProfile: client c1 runs and unregisters queries, with an unbounded
\* query log or one of a single record, while client c2 asks for profiles.
ProfileInputs == Inputs(MaxQueries, {0}, {TRUE}, {{"h1"}}, {})

InitProfile == Constructed({0 - 1, 1})

NextProfile ==
  \/ \E s \in SessionIds : ConnectionStart(s)
  \/ ExecuteStep("c1", ProfileInputs)
  \/ \E q \in QueryIds : ClientUnregister("c1", q)
  \/ UncontendedLifecycleStep("c1")
  \/ ProfileStep("c2")
  \/ \E q \in QueryIds \cup {BogusId} : GetExecSummary("c2", q)

SpecProfile == InitProfile /\ [][NextProfile]_vars

\* SpecLocks: client c1 runs queries with a timeout, client c2 cancels
\* queries, the query sweeper runs on the clock and the cancellation pool
\* handles what the sweeper offers.
LockInputs == Inputs(MaxQueries, {1}, {TRUE}, {{"h1"}}, {})

InitLocks == Constructed({1})

NextLocks ==
  \/ Advance({QueryExpirer})
  \/ \E s \in SessionIds : ConnectionStart(s)
  \/ ExecuteStep("c1", LockInputs)
  \/ \E q \in QueryIds : ClientCancel("c2", q)
  \/ \E t \in Clients \cup Workers : GetQueryExecState_Lock(t)
  \/ \E t \in Clients \cup Workers : GetQueryExecState_Wait(t)
  \/ \E t \in Clients \cup Workers : CancelInternal_Cancel(t)
  \/ UnregisterQuery_Erase("c1")
  \/ UnregisterQuery_Done("c1")
  \/ ArchiveQuery("c1")
  \/ \E t \in Workers : CancelFromThreadPool(t)
  \/ ExpireQueries_Wake(QueryExpirer)
  \/ ExpireQueries_Scan(QueryExpirer)
  \/ ExpireQueries_Offer(QueryExpirer)

SpecLocks == InitLocks /\ [][NextLocks]_vars

\* SpecClose: client c1 runs a query on session s1 and closes the session,
\* client c2 closes it too, by CloseSessionInternal or by ending the
\* connection.
InitClose == Constructed({1})

NextClose ==
  \/ \E s \in SessionIds : ConnectionStart(s)
  \/ ExecuteStep("c1", ConcurrentInputs)
  \/ \E t \in Clients, s \in SessionIds, ignore \in BOOLEAN :
       /\ connection_call[t] = NoConnectionCall
       /\ CloseSessionInternal_Find(t, s, ignore)
  \/ \E t \in Clients : CloseSessionInternal_Mark(t)
  \/ \E t \in Clients : CloseSessionInternal_Loop(t)
  \/ \E c \in SessionIds : ConnectionEnd_Find("c2", c)
  \/ ConnectionEnd_Close("c2")
  \/ ConnectionEnd_Erase("c2")
  \/ \E t \in Clients : LifecycleStep(t)

SpecClose == InitClose /\ [][NextClose]_vars

\* SpecExecute: client c1 runs queries that may fail in planning or in
\* Exec, client c2 cancels and closes them and closes the session, the
\* server goes offline and comes back.
InitExecute == Constructed({1})

NextExecute ==
  \/ \E s \in SessionIds : ConnectionStart(s)
  \/ \E offline \in BOOLEAN : SetOffline(offline)
  \/ ExecuteStep("c1", ConcurrentInputs)
  \/ HandleStep("c2", ConcurrentInputs)
  \/ CloseSessionStep("c2")
  \/ \E t \in Clients : LifecycleStep(t)

SpecExecute == InitExecute /\ [][NextExecute]_vars

\* A thread of the Thrift server ending a connection.
ConnectionEndStep(t) ==
  \/ \E c \in AllSessionIds : ConnectionEnd_Find(t, c)
  \/ ConnectionEnd_Close(t)
  \/ CloseSessionInternal_Mark(t)
  \/ CloseSessionInternal_Loop(t)
  \/ ConnectionEnd_Erase(t)

\* SpecConn: a HiveServer2 connection with two sessions; client c1 runs
\* queries on one of them, queries that may fail, while thread c2 ends
\* the connection.
InitConn == Constructed({1})

NextConn ==
  \/ \E s \in AllSessionIds : OpenSession("s1", s)
  \/ ExecuteStep("c1", ConcurrentInputs)
  \/ ConnectionEndStep("c2")
  \/ \E t \in Clients : LifecycleStep(t)

SpecConn == InitConn /\ [][NextConn]_vars

\* A client thread running queries that plan and execute without an error,
\* under ids that may repeat.
RepeatedIdExecuteStep(t) ==
  \/ \E s \in SessionIds, q \in QueryIds : GetSessionState_AnyId(t, s, q)
  \/ \E timeout \in {0, 1} : ExecuteStart(t, timeout)
  \/ RegisterQuery_Session(t)
  \/ RegisterQuery_Insert(t)
  \/ RegisterQuery_Timeout(t)
  \/ \E hosts \in {{"h1"}} : ExecuteInternal_Plan(t, TRUE, TRUE, hosts)
  \/ ExecuteInternal_Exec(t, TRUE)
  \/ ExecuteInternal_Locations(t)
  \/ MarkSessionInactive(t)

\* SpecDup: two client threads issue queries on one session, the id
\* generator may repeat an id; no query fails or is closed.
InitDup == Constructed({1})

NextDup ==
  \/ \E s \in SessionIds : ConnectionStart(s)
  \/ \E t \in Clients : RepeatedIdExecuteStep(t)

SpecDup == InitDup /\ [][NextDup]_vars

\* --idle_query_timeout and query_timeout_s: negative, zero, positive.
MaxTimeout == 2
TimeoutValues == (0 - 1) .. MaxTimeout

\* One query per run: the pairs of timeouts are what varies.
TimeoutInputs == Inputs(1, TimeoutValues, {TRUE}, {{"h1"}}, {})

\* SpecTimeout: the server started with any --idle_query_timeout; a client
\* runs queries with any query_timeout_s and closes them, the query sweeper
\* and the cancellation pool work, time passes while the sweeper sleeps.
InitTimeout == ConstructedWith({1}, TimeoutValues, {NoProxyConfig})

NextTimeout ==
  \/ \E s \in SessionIds : ConnectionStart(s)
  \/ ExecuteStep("c1", TimeoutInputs)
  \/ \E q \in QueryIds : ClientUnregister("c1", q)
  \/ \E t \in {"c1"} \cup Workers : LifecycleStep(t)
  \/ \E t \in Workers : CancelFromThreadPool(t)
  \/ ExpireQueriesStep

SpecTimeout == InitTimeout /\ [][NextTimeout]_vars

\* A heartbeat of the catalog topic.
CatalogUpdateCallbackStep(answers, service_ids) ==
  \/ \E delta \in CatalogDeltas, update_ok \in answers, sid \in service_ids :
       CatalogUpdateCallback_Apply(delta, update_ok, sid)
  \/ CatalogUpdateCallback_MinVersion
  \/ CatalogUpdateCallback_Notify

\* A client thread waiting for a catalog update it was told of.
ProcessCatalogUpdateResultStep(t) ==
  \/ \E version \in CatalogVersions, sid \in ServiceIds,
        has_object \in BOOLEAN, wait \in BOOLEAN, update_ok \in BOOLEAN :
       ProcessCatalogUpdateResult(t, version, sid, has_object, wait, update_ok)
  \/ ProcessCatalogUpdateResult_Version(t)
  \/ ProcessCatalogUpdateResult_Subscribers(t)
  \/ ProcessCatalogUpdateResult_Woken(t)

\* SpecCatalog: the bus thread delivering catalog heartbeats and client
\* threads waiting on the catalog barrier.  The heartbeats carry no update
\* or one the frontend applies; one it fails to apply leaves what the
\* barrier reads as a heartbeat without update does (SpecCatalogUpdate).
InitCatalog == Constructed({1})

NextCatalog ==
  \/ CatalogUpdateCallbackStep({TRUE}, ServiceIds)
  \/ ProcessCatalogUpdateResultStep("c1")

SpecCatalog == InitCatalog /\ [][NextCatalog]_vars

\* SpecCatalogUpdate: the heartbeats of the catalog topic, of one catalog
\* service, with one client waiting at the barrier for the subscribers, so
\* that catalog_version_lock_ is held and the condition variable waited on
\* while heartbeats arrive.
InitCatalogUpdate == Constructed({1})

NextCatalogUpdate ==
  \/ CatalogUpdateCallbackStep(BOOLEAN, {"sid1"})
  \/ \E version \in CatalogVersions :
       ProcessCatalogUpdateResult("c1", version, "sid1", FALSE, TRUE, TRUE)
  \/ ProcessCatalogUpdateResult_Version("c1")
  \/ ProcessCatalogUpdateResult_Subscribers("c1")
  \/ ProcessCatalogUpdateResult_Woken("c1")

SpecCatalogUpdate == InitCatalogUpdate /\ [][NextCatalogUpdate]_vars

\* An RPC thread of the backend service serving TransmitData.
TransmitDataStep(t) ==
  \/ \E snd \in Senders, num_rows \in NumRows, eos \in BOOLEAN, add_status \in {OK, AddDataError} :
       TransmitData(t, snd, num_rows, eos, add_status)
  \/ \E close_status \in {OK, CloseSenderError} : TransmitData_CloseSender(t, close_status)

\* SpecTransmit: two RPC threads taking TransmitData requests of any
\* senders, with and without rows, with and without eos.
InitTransmit == Constructed({1})

NextTransmit == \E t \in Clients : TransmitDataStep(t)

SpecTransmit == InitTransmit /\ [][NextTransmit]_vars

\* SpecProxy: the server started with any proxy configuration; a client
\* thread asks for delegation from any principal to any user.
InitProxy == ConstructedWith({1}, {0}, ProxyConfigs)

NextProxy ==
  \E user \in Principals, do_as_user \in DoAsUsers : AuthorizeProxyUser("c1", user, do_as_user)

SpecProxy == InitProxy /\ [][NextProxy]_vars

\* An RPC thread of the backend service serving ReportExecStatus.
ReportExecStatusStep(t) ==
  \E q \in QueryIds, status \in UpdateFragmentExecStatusResults, crash \in BOOLEAN :
    ReportExecStatus(t, q, status, crash)

\* Queries with and without a coordinator, closed by their handle.
ReportInputs == Inputs(MaxConcurrentQueries, {1}, BOOLEAN, {{"h1"}}, QueryIds)

\* SpecReport: client c1 runs and closes queries while the RPC thread c2
\* takes ReportExecStatus calls for any query id.
InitReport == Constructed({1})

NextReport ==
  \/ ConnectionStart("s1")
  \/ ExecuteStep("c1", ReportInputs)
  \/ \E q \in QueryIds : ClientUnregister("c1", q)
  \/ UncontendedLifecycleStep("c1")
  \/ ReportExecStatusStep("c2")

SpecReport == InitReport /\ [][NextReport]_vars

\* An RPC thread of the backend service serving ExecPlanFragment.
ExecPlanFragmentStep(t, ids) ==
  \/ \E id \in ids, has_sink \in BOOLEAN : StartPlanFragmentExecution(t, id, has_sink)
  \/ \E prepare_ok \in BOOLEAN : StartPlanFragmentExecution_Prepare(t, prepare_ok)
  \/ StartPlanFragmentExecution_Register(t)
  \/ StartPlanFragmentExecution_Thread(t)

\* An RPC thread of the backend service serving CancelPlanFragment.
CancelPlanFragmentStep(t, ids) ==
  \/ \E id \in ids : CancelPlanFragment(t, id)
  \/ CancelPlanFragment_Cancel(t)

\* The exec thread of a fragment instance.
RunExecPlanFragmentStep ==
  \/ \E o \in FragmentObjs, crash \in BOOLEAN : RunExecPlanFragment_Exec(o, crash)
  \/ \E o \in FragmentObjs, id_read \in FragmentIds : RunExecPlanFragment_Exit(o, id_read)

\* SpecFragment: two RPC threads of the backend service taking
\* ExecPlanFragment and CancelPlanFragment requests for any instance ids,
\* and the exec threads they start.
InitFragment == Constructed({1})

NextFragment ==
  \/ \E t \in Clients : ExecPlanFragmentStep(t, FragmentIds)
  \/ \E t \in Clients : CancelPlanFragmentStep(t, FragmentIds)
  \/ RunExecPlanFragmentStep

SpecFragment == InitFragment /\ [][NextFragment]_vars

\* The membership topic's deltas in which a backend leaves.
BackendFailures == {delta \in FailureDeltas : delta.topic_deletions # {}}

\* SpecIdle: the session sweeper on the clock, two sessions (queries run on
\* one of them), the cancellation pool and the membership callback.
InitIdle == Constructed({1})

NextIdle ==
  \/ Advance({SessionExpirer})
  \/ \E s \in AllSessionIds : ConnectionStart(s)
  \/ ExecuteStep("c1", PoolInputs)
  \/ \E t \in {"c1"} \cup Workers : UncontendedLifecycleStep(t)
  \/ \E t \in Workers : CancelFromThreadPool(t)
  \/ ExpireSessions_Wake(SessionExpirer)
  \/ ExpireSessions_Scan(SessionExpirer)
  \/ ExpireSessions_Offer(SessionExpirer)
  \/ \E delta \in BackendFailures :
       MembershipCallback(delta.is_delta, delta.topic_entries, delta.topic_deletions)

SpecIdle == InitIdle /\ [][NextIdle]_vars

\* A client thread running a query on a session handle it did not check out.
UnmarkedExecuteStep(t, in) ==
  \/ \E s \in SessionIds : GetSessionState_Unmarked(t, s, in.limit)
  \/ Execute_Return(t)

\* SpecHandle: a client running queries on checked-out and on plain session
\* handles, a second client closing the session, the session sweeper, with
\* time passing.
InitHandle == Constructed({1})

NextHandle ==
  \/ Tick
  \/ \E s \in SessionIds : ConnectionStart(s)
  \/ ExecuteStep("c1", PoolInputs)
  \/ UnmarkedExecuteStep("c1", PoolInputs)
  \/ CloseSessionStep("c2")
  \/ \E t \in Clients : LifecycleStep(t)
  \/ ExpireSessions_Wake(SessionExpirer)
  \/ ExpireSessions_Scan(SessionExpirer)
  \/ ExpireSessions_Offer(SessionExpirer)

SpecHandle == InitHandle /\ [][NextHandle]_vars

\* ------------------------------------------------------------------------
\* Properties
\* ------------------------------------------------------------------------
\* Positions inside CancelInternal and inside the rest of UnregisterQuery.
CancelPcs == {"cancel_lookup", "cancel_wait", "cancel_locked"}
UnregisterPcs == {"unregister_erase", "unregister_done", "unregister_locations",
                  "archive"}

\* The session that owns query q, and its inflight set.
Owner(q) == exec_states[q].session
Inflight(q) == sessions[Owner(q)].inflight_queries

\* C1: every id in the query registry is in its owning session's
\* inflight_queries, and once UnregisterQuery(q) has returned true q is in no
\* session's inflight_queries.
C1_RegisteredIsInflight ==
  /\ \A q \in query_exec_state_map : q \in Inflight(q)
  /\ \A q \in QueryIds : unregister_true[q] >= 1 =>
        \A s \in SessionIds : q \notin sessions[s].inflight_queries

\* A query that was registered and in flight has been unregistered by a call
\* that returned true.
C1_Witness ==
  \E q \in ever_registered, t \in Clients :
    /\ unregister_true[q] = 1
    /\ result[t] = [op |-> "UnregisterQuery", q |-> q, val |-> TRUE]

\* An UnregisterQuery(q) that has erased q from the registry and has not yet
\* erased it from the session's inflight set.
Unregistering(q) == \E t \in Threads : pc[t] = "unregister_done" /\ loc[t].q = q

LogIds(log) == [i \in 1 .. Len(log) |-> log[i].id]

\* The last n ids of the archival order, most recent first.
MostRecentFirst(order, n) == [i \in 1 .. n |-> order[Len(order) + 1 - i]]

\* What GetRuntimeProfileStr hands back for q in the format asked for.
ProfileStr(q, base64_encoded) ==
  IF base64_encoded THEN SerializeToArchiveString(profile(q))
                    ELSE PrettyPrint(profile(q))

\* C5 (as amended): UnregisterQuery(q) returning true has called ArchiveQuery
\* for q exactly once, whatever state q was in; GetRuntimeProfileStr(q)
\* consults the live registry first and answers from it while q is
\* registered, terminal or not; on a miss it returns OK with the archived
\* profile (pretty, or base64 when base64_encoded is set) exactly when q's
\* record is still in the query log, and "Query id not found" when
\* query_log_size is 0, when q's record was evicted or q was never archived.
C5_ProfileLiveThenArchive ==
  /\ [](\A q \in QueryIds :
          /\ archive_calls[q] = unregister_true[q]
          /\ archive_calls[q] <= 1
          /\ q \in DOMAIN query_log_index
               <=> \E i \in 1 .. Len(query_log) : query_log[i].id = q
          /\ q \in DOMAIN query_log_index => archive_calls[q] = 1)
  /\ [][\A t \in Clients :
          LET q == loc[t].q IN
          /\ pc[t] = "profile_live" /\ pc'[t] # pc[t] =>
               IF q \in query_exec_state_map
                 THEN result'[t] = [op |-> "GetRuntimeProfileStr", q |-> q,
                                    val |-> << OK, ProfileStr(q, loc[t].flag) >>]
                 ELSE pc'[t] = "profile_log"
          /\ pc[t] = "profile_log" /\ pc'[t] # pc[t] =>
               IF \E i \in 1 .. Len(query_log) : query_log[i].id = q
                 THEN result'[t] = [op |-> "GetRuntimeProfileStr", q |-> q,
                                    val |-> << OK, ProfileStr(q, loc[t].flag) >>]
                 ELSE result'[t] = [op |-> "GetRuntimeProfileStr", q |-> q,
                                    val |-> << "Query id not found", "" >>]]_vars

\* The base64 profile of an unregistered, archived query has been returned.
C5_Witness ==
  \E q \in QueryIds :
    /\ unregister_true[q] = 1
    /\ q \in DOMAIN query_log_index
    /\ result["c1"] = [op |-> "GetRuntimeProfileStr", q |-> q,
                       val |-> << OK, query_log_index[q].encoded_profile_str >>]

\* C5 as stated: once q is terminal, GetRuntimeProfileStr(q) returns OK with
\* the profile archived by the one ArchiveQuery of q.
C5_TerminalThenArchivedProfile ==
  \A t \in Clients, q \in QueryIds :
    (/\ result[t].op = "GetRuntimeProfileStr"
     /\ result[t].q = q
     /\ exec_states[q].query_state \in TerminalStates)
    => /\ archive_calls[q] = 1
       /\ q \in DOMAIN query_log_index
       /\ result[t].val \in { << OK, query_log_index[q].profile_str >>,
                              << OK, query_log_index[q].encoded_profile_str >> }

\* C6: unless query_log_size is -1 the query log never holds more than
\* max(query_log_size, 0) records; with query_log_size 0 nothing is archived;
\* the overflowing insertion leaves an excess of exactly one.
C6_LogSizeBounded ==
  /\ FLAGS_query_log_size # -1 => Len(query_log) <= Max(FLAGS_query_log_size, 0)
  /\ FLAGS_query_log_size = 0 => query_log = << >> /\ query_log_index = EmptyMap
  /\ FLAGS_query_log_size > 0 =>
       \A t \in Threads : pc[t] = "archive" =>
          Len(InsertRecord(query_log, QueryStateRecord(loc[t].q)))
             - FLAGS_query_log_size <= 1

\* C7: the query log lists the most recently archived queries, most recent
\* first: each ArchiveQuery prepends, the records present keep their order,
\* and an eviction takes the record archived longest ago.
C7_MostRecentFirst ==
  /\ Len(query_log) <= Len(archive_order)
  /\ LogIds(query_log) = MostRecentFirst(archive_order, Len(query_log))

\* Two queries archived, the later one in front; and a log of capacity one
\* that has evicted the earlier of two.
C7_Witness ==
  /\ Len(archive_order) = 2
  /\ \/ Len(query_log) = 2 /\ query_log[1].id = archive_order[2]
     \/ FLAGS_query_log_size = 1 /\ Len(query_log) = 1
          /\ query_log[1].id = archive_order[2]

\* Thread t is inside UnregisterQuery (its CancelInternal included).
InUnregisterQuery(t) ==
  pc[t] \in CancelPcs \cup UnregisterPcs /\ loc[t].unregister

\* The inflight set of every session.
InflightSets == [s \in SessionIds |-> sessions[s].inflight_queries]

\* C3: UnregisterQuery of a registered q returns true; every step of a later
\* UnregisterQuery(q), and of an UnregisterQuery of an id never registered,
\* leaves the registry, the inflight sets, QueryLocations, the expiration
\* queue, the query log and its index as they are, and the call returns false.
C3_SecondUnregisterIsNoOp ==
  [][\A t \in Clients :
       LET q == loc[t].q
           returns == pc'[t] \notin CancelPcs \cup UnregisterPcs
       IN InUnregisterQuery(t) /\ pc'[t] # pc[t] =>
            IF q \notin ever_registered \/ unregister_true[q] >= 1
              THEN /\ UNCHANGED << query_exec_state_map, query_locations,
                                   queries_by_timestamp, query_log, query_log_index >>
                   /\ InflightSets' = InflightSets
                   /\ returns =>
                        result'[t] = [op |-> "UnregisterQuery", q |-> q, val |-> FALSE]
              ELSE returns =>
                     result'[t] = [op |-> "UnregisterQuery", q |-> q, val |-> TRUE]
    ]_vars

\* A second UnregisterQuery of a query that is in the log has returned false.
C3_Witness ==
  \E q \in ever_registered :
    /\ unregister_true[q] = 1
    /\ q \in DOMAIN query_log_index
    /\ result["c1"] = [op |-> "UnregisterQuery", q |-> q, val |-> FALSE]

\* C4: however the UnregisterQuery(q) calls of the client thread and the
\* cancellation workers interleave, at most one returns true and Done() and
\* ArchiveQuery run at most once for q; once q has left the registry and no
\* call is still at work on it, exactly one call has returned true and Done()
\* and ArchiveQuery have each run exactly once.
C4_ExactlyOneUnregisters ==
  \A q \in QueryIds :
    /\ done_calls[q] <= 1
    /\ archive_calls[q] <= 1
    /\ unregister_true[q] <= 1
    /\ unregister_true[q] = 1 => done_calls[q] = 1 /\ archive_calls[q] = 1
    /\ (/\ q \in ever_registered
        /\ q \notin query_exec_state_map
        /\ \A t \in Threads : ~(pc[t] \in UnregisterPcs /\ loc[t].q = q))
       => unregister_true[q] = 1 /\ done_calls[q] = 1 /\ archive_calls[q] = 1

\* The client thread and a pool worker have both returned from
\* UnregisterQuery(q), one with true and one with false.
C4_Witness ==
  \E q \in QueryIds, b \in BOOLEAN :
    /\ result["c1"] = [op |-> "UnregisterQuery", q |-> q, val |-> b]
    /\ result["w1"] = [op |-> "UnregisterQuery", q |-> q, val |-> ~b]
    /\ done_calls[q] = 1
    /\ archive_calls[q] = 1

\* The thread a blocked thread waits for: the holder of the mutex its next
\* step needs (NoThread when the step can be taken).
Blocker(t) ==
  CASE pc[t] \in {"register_session", "close_mark", "release_session"}
         -> session_lock[loc[t].s]
    [] pc[t] = "unregister_done" -> session_lock[Owner(loc[t].q)]
    [] pc[t] \in {"register_map", "cancel_lookup", "unregister_erase", "profile_live"}
         -> query_exec_state_map_lock
    [] pc[t] = "cancel_wait" -> exec_state_lock[loc[t].q]
    [] OTHER -> NoThread

\* The threads of a set all wait for threads of the set.
Deadlocked(D) == D # {} /\ \A t \in D : Blocker(t) \in D

C10_CancelDoesNotUnregister ==
  [][\A t \in Threads :
       LET q == loc[t].q IN
       pc[t] \in CancelPcs /\ pc'[t] # pc[t] =>
         /\ UNCHANGED << query_exec_state_map, query_locations, queries_by_timestamp,
                         query_log, query_log_index >>
         /\ InflightSets' = InflightSets
         /\ pc[t] = "cancel_lookup" =>
              IF q \in query_exec_state_map
                THEN pc'[t] \in {"cancel_wait", "cancel_locked"}
                ELSE result'[t] = [op |-> "CancelInternal", q |-> q,
                                   val |-> "Invalid or unknown query handle"]
         /\ pc[t] = "cancel_locked" =>
              result'[t] = [op |-> "CancelInternal", q |-> q, val |-> OK]
         /\ pc'[t] \notin CancelPcs =>
              \A x \in QueryIds : exec_state_lock'[x] # t
    ]_vars

\* A client's CancelInternal of a registered query returned OK and the query,
\* now cancelled, is still registered and in flight.
C10_Witness ==
  \E q \in query_exec_state_map, t \in Clients :
    /\ result[t] = [op |-> "CancelInternal", q |-> q, val |-> OK]
    /\ exec_states[q].query_state = "Cancelled"
    /\ q \in Inflight(q)
    /\ exec_state_lock[q] = NoThread


\* A step of MembershipCallback (the bus thread has no position of its own).
MembershipStep == pc' = pc /\ known_backends' # known_backends

\* The entries a MembershipCallback step erased from query_locations_, and
\* the queries they named.
ErasedLocations == (DOMAIN query_locations) \ (DOMAIN query_locations')
ErasedQueries == UNION {query_locations[h] : h \in ErasedLocations}

\* A thread waiting in ThreadPool::Offer for room in the queue.
OfferPcs == {"expire_offer", "expire_query_offer"}
WaitingToOffer(t) ==
  pc[t] \in OfferPcs /\ Len(cancellation_queue) >= MAX_CANCELLATION_QUEUE_SIZE

\* C11: no producer of cancellation work ever waits for room in the queue:
\* a sweeper thread is never inside Offer with the queue full, and the
\* membership callback never waits (it is one step that drops its batch).
C11_ProducersNeverBlock ==
  \A t \in Threads : ~WaitingToOffer(t)

\* C12: when a MembershipCallback erases failed backends' entries and drops
\* the batch because the queue would overflow, the next MembershipCallback
\* (same membership) still finds every dropped query under a failed backend.
C12_DroppedBatchRecomputed ==
  [][ ( /\ pc' = pc
        /\ ErasedQueries # {}
        /\ cancellation_queue' = cancellation_queue )
      => \A q \in ErasedQueries :
           \E h \in DOMAIN query_locations' :
             h \notin known_backends' /\ q \in query_locations'[h] ]_vars

\* The registered queries whose coordinator has started a fragment on host h.
WithFragmentOn(h) ==
  {q \in query_exec_state_map :
     exec_states[q].coord /\ h \in exec_states[q].unique_hosts}

\* C13: the MembershipCallback that removes backend h from the membership
\* leaves a cancel-kind work item in the queue for every registered query
\* with a fragment on h, unless the queue would overflow.
C13_FailedBackendQueriesEnqueued ==
  [][ MembershipStep =>
        \A h \in known_backends \ known_backends' :
          \A q \in WithFragmentOn(h) :
            \/ Len(cancellation_queue) + Cardinality(WithFragmentOn(h))
                 > MAX_CANCELLATION_QUEUE_SIZE
            \/ \E i \in 1 .. Len(cancellation_queue') :
                 /\ cancellation_queue'[i].query_id = q
                 /\ ~cancellation_queue'[i].unregister ]_vars

\* C14: closed and expired never go from true to false, and expired is set
\* only by the sweeper's scan, on a session that at that moment has
\* ref_count 0 and is neither closed nor expired.
C14_ClosedExpiredMonotonic ==
  [][ \A s \in SessionIds :
        /\ sessions[s].closed => sessions'[s].closed
        /\ sessions[s].expired => sessions'[s].expired
        /\ (~sessions[s].expired /\ sessions'[s].expired)
             => /\ pc[SessionExpirer] = "expire_scan"
                /\ s \in loc[SessionExpirer].todo
                /\ sessions[s].ref_count = 0
                /\ ~sessions[s].closed ]_vars

\* The sweeper has finished a pass over a session that was past its idle
\* timeout but checked out by a request, and has left it alone.
C14_Witness ==
  \E s \in session_state_map :
    /\ pc[SessionExpirer] = "expire_scan"
    /\ loc[SessionExpirer].todo = {}
    /\ sessions[s].ref_count > 0
    /\ loc[SessionExpirer].now - sessions[s].last_accessed_ms
         > FLAGS_idle_session_timeout * 1000
    /\ ~sessions[s].expired

\* The ids a step adds to the query registry, to a session's inflight set or
\* to the expiration queue.
AddedByStep ==
  (query_exec_state_map' \ query_exec_state_map)
    \cup UNION {sessions'[s].inflight_queries \ sessions[s].inflight_queries :
                  s \in SessionIds}
    \cup {e[2] : e \in queries_by_timestamp' \ queries_by_timestamp}

\* RegisterQuery, entered by thread t, returns an error and adds nothing.
Refused(t) ==
  /\ pc'[t] = "release_session"
  /\ loc'[t].status # OK
  /\ ~loc'[t].registered
  /\ AddedByStep = {}

GetSessionStateStep(t) ==
  /\ pc[t] = "idle"
  /\ \/ pc'[t] = "execute"
     \/ result'[t].op = "GetSessionState" /\ result'[t] # result[t]

\* What a failed GetSessionState tells about the session it was asked for.
LookupError(t) ==
  /\ sessions' = sessions
  /\ loc'[t].s = NoSession
  /\ \E s \in SessionIds :
       \/ /\ result'[t].val = "Invalid session id"
          /\ s \notin session_state_map
       \/ /\ result'[t].val = "Client session expired"
          /\ s \in session_state_map /\ sessions[s].expired
       \/ /\ result'[t].val = "Session is closed"
          /\ s \in session_state_map /\ ~sessions[s].expired /\ sessions[s].closed

\* C16: GetSessionState with mark_active fails on an expired session, else
\* on a closed one, else increments ref_count, sets last_accessed_ms to the
\* current time and returns the handle, in one step under both locks; without
\* mark_active it returns the handle and leaves the session as it is; an
\* unknown id gives 'Invalid session id' and no handle.
C16_LookupRefreshesLastAccessed ==
  [][ \A t \in Clients : GetSessionStateStep(t) =>
        IF pc'[t] = "execute"
          THEN LET s == loc'[t].s IN
                 /\ s \in session_state_map
                 /\ session_state_map_lock = NoThread
                 /\ IF loc'[t].checked_out
                      THEN /\ session_lock[s] = NoThread
                           /\ ~sessions[s].expired /\ ~sessions[s].closed
                           /\ sessions' = [sessions EXCEPT
                                 ![s].ref_count = @ + 1,
                                 ![s].last_accessed_ms = now]
                      ELSE sessions' = sessions
          ELSE LookupError(t) ]_vars

\* C16 (as amended): the same, except that the check-out only increments
\* ref_count: last_accessed_ms and every other field keep their values.
C16_LookupIncrementsRefCountOnly ==
  [][ \A t \in Clients : GetSessionStateStep(t) =>
        IF pc'[t] = "execute"
          THEN LET s == loc'[t].s IN
                 /\ s \in session_state_map
                 /\ session_state_map_lock = NoThread
                 /\ IF loc'[t].checked_out
                      THEN /\ session_lock[s] = NoThread
                           /\ ~sessions[s].expired /\ ~sessions[s].closed
                           /\ sessions' = [sessions EXCEPT ![s].ref_count = @ + 1]
                      ELSE sessions' = sessions
          ELSE LookupError(t) ]_vars

\* A session checked out some time after its last_accessed_ms was written.
C16_Witness ==
  \E t \in Clients :
    /\ pc[t] = "execute"
    /\ loc[t].checked_out
    /\ sessions[loc[t].s].ref_count = 1
    /\ sessions[loc[t].s].last_accessed_ms < now

\* The sessions a step marks expired.
ExpiredByStep == {s \in SessionIds : ~sessions[s].expired /\ sessions'[s].expired}

\* C18: the step that sets expired hands the sweeper exactly the session's
\* inflight ids; the sweeper then offers one unregister-kind item with cause
\* 'Session expired due to inactivity' per id and goes on only when none is
\* left; nobody else offers such items; the sweeper never enters
\* CancelInternal or UnregisterQuery and changes no query; a pool thread that
\* has finished such an item leaves the query out of the registry.
C18_SweeperEnqueuesUnregisterPerInflight ==
  [][ /\ \A s \in ExpiredByStep :
           /\ loc'[SessionExpirer].inflight = sessions[s].inflight_queries
           /\ cancellation_queue' = cancellation_queue
           /\ pc'[SessionExpirer] =
                IF sessions[s].inflight_queries = {} THEN "expire_scan" ELSE "expire_offer"
      /\ pc[SessionExpirer] = "expire_offer" /\ loc'[SessionExpirer] # loc[SessionExpirer]
           => \E q \in loc[SessionExpirer].inflight :
                /\ cancellation_queue' =
                     Append(cancellation_queue,
                            CancellationWork(q, SessionExpiredCause, TRUE))
                /\ loc'[SessionExpirer].inflight = loc[SessionExpirer].inflight \ {q}
                /\ pc'[SessionExpirer] = "expire_offer"
                     <=> loc'[SessionExpirer].inflight # {}
      /\ \A i \in 1 .. Len(cancellation_queue') :
           ( /\ cancellation_queue'[i].cause = SessionExpiredCause
             /\ ~(i <= Len(cancellation_queue)
                    /\ cancellation_queue[i] = cancellation_queue'[i])
             /\ Len(cancellation_queue') > Len(cancellation_queue) )
           => pc[SessionExpirer] = "expire_offer" /\ cancellation_queue'[i].unregister
      /\ pc'[SessionExpirer] \notin CancelPcs \cup UnregisterPcs
      /\ pc'[SessionExpirer] # pc[SessionExpirer] \/ loc'[SessionExpirer] # loc[SessionExpirer]
           => /\ UNCHANGED << queryVars, query_locations, logVars >>
              /\ \A s \in SessionIds :
                   sessions'[s].inflight_queries = sessions[s].inflight_queries
      /\ \A w \in Workers :
           ( /\ pc[w] # "idle" /\ pc'[w] = "idle"
             /\ loc[w].unregister /\ loc[w].cause = SessionExpiredCause )
           => /\ loc[w].q \notin query_exec_state_map'
              /\ result'[w].op = "UnregisterQuery" ]_vars

\* A pool thread has unregistered a query of an expired session on the
\* sweeper's work item.
C18_Witness ==
  \E w \in Workers, q \in ever_registered :
    /\ result[w] = [op |-> "UnregisterQuery", q |-> q, val |-> TRUE]
    /\ sessions[Owner(q)].expired
    /\ exec_states[q].query_status = SessionExpiredCause
    /\ q \notin query_exec_state_map
    /\ q \notin Inflight(q)

\* C17: a session that is idle (ref_count 0, not closed) and not yet expired
\* has been idle for at most idle_session_timeout + idle_session_timeout / 2.
C17_IdleSessionExpiredInTime ==
  \A s \in session_state_map :
    ( sessions[s].ref_count = 0 /\ ~sessions[s].closed /\ ~sessions[s].expired )
      => now <= idle_since[s] + FLAGS_idle_session_timeout * 1000
                              + FLAGS_idle_session_timeout * 500

\* The query sweeper has just offered its work item.
QueryOfferStep ==
  pc[QueryExpirer] = "expire_query_offer" /\ pc'[QueryExpirer] = "expire_queries"

\* The query sweeper has just found a query to expire.
QueryDueStep ==
  pc[QueryExpirer] = "expire_queries" /\ pc'[QueryExpirer] = "expire_query_offer"

\* A pool thread working on an item of the query sweeper takes a step.
ExpiryWorkStep(w) ==
  /\ loc[w].op = "CancelFromThreadPool"
  /\ loc[w].cause = QueryExpiredCause
  /\ pc'[w] # pc[w]

\* A pool thread returns from an item of the query sweeper.
ExpiryWorkDone(w) == ExpiryWorkStep(w) /\ pc'[w] = "idle"

\* q has an expiration event and is still registered and running.
ExpiryPending(q) ==
  /\ q \in query_exec_state_map
  /\ exec_states[q].query_state \notin TerminalStates
  /\ \E e \in queries_by_timestamp : e[2] = q

C19_ExpiredQueryCancelledOnly ==
  [][ /\ QueryDueStep =>
           LET q == loc'[QueryExpirer].q
               T == EffectiveTimeout(FLAGS_idle_query_timeout,
                                     exec_states[q].query_timeout_s) IN
             /\ q \in query_exec_state_map
             /\ T > 0
             /\ ~exec_states[q].is_active
             /\ loc[QueryExpirer].now >= exec_states[q].last_active + T * 1000
      /\ QueryOfferStep =>
           cancellation_queue' =
             Append(cancellation_queue,
                    CancellationWork(loc[QueryExpirer].q, QueryExpiredCause, FALSE))
      /\ \A i \in 1 .. Len(cancellation_queue') :
           cancellation_queue'[i].cause = QueryExpiredCause
             => ~cancellation_queue'[i].unregister
      /\ \A w \in Workers :
           ExpiryWorkStep(w) =>
             /\ pc'[w] \in {"idle", "cancel_wait", "cancel_locked"}
             /\ query_exec_state_map' = query_exec_state_map
             /\ \A s \in AllSessionIds :
                  sessions'[s].inflight_queries = sessions[s].inflight_queries
             /\ query_log' = query_log
             /\ archive_calls' = archive_calls
             /\ ( pc'[w] = "idle" /\ result'[w].op = "CancelInternal"
                                /\ result'[w].val = OK ) =>
                  /\ exec_states'[loc[w].q].query_state \in TerminalStates
                  /\ ( /\ exec_states[loc[w].q].query_state \notin TerminalStates
                       /\ exec_states[loc[w].q].query_status = OK )
                       => /\ exec_states'[loc[w].q].query_status = QueryExpiredCause
                          /\ exec_states'[loc[w].q].query_state = "Cancelled"
    ]_vars

\* C19 amended, progress: a registered, running query with an expiration
\* event eventually is terminal or gone from the registry.
C19_ExpiredQueryEventuallyCancelled ==
  \A q \in QueryIds :
    ExpiryPending(q) ~> ( \/ q \notin query_exec_state_map
                          \/ exec_states[q].query_state \in TerminalStates )

VersionReached(t) ==
  /\ catalog_update_info.catalog_version >= catalog_call[t].version
  /\ catalog_update_info.catalog_service_id = catalog_call[t].catalog_service_id

\* The locally known catalog service is not the one the caller was told of.
ServiceIdDiffers(t) ==
  catalog_update_info.catalog_service_id # catalog_call[t].catalog_service_id

\* The update has reached every subscriber of the catalog topic.
SubscribersReached(t) ==
  min_subscriber_catalog_topic_version >=
    catalog_call[t].min_req_subscriber_topic_version

\* t is blocked in catalog_version_update_cv_.wait() and no callback that
\* has yet to notify is under way.
BlockedOnCv(t) ==
  /\ pc[t] \in {"catalog_version_wait", "catalog_subscriber_wait"}
  /\ t \in catalog_version_update_cv
  /\ catalog_callback.pc = "idle"

\* t returns from the waiting branch of ProcessCatalogUpdateResult.
BarrierReturn(t) ==
  /\ pc[t] \in {"catalog_version_check", "catalog_version_wait",
                "catalog_subscriber_check", "catalog_subscriber_wait"}
  /\ pc'[t] = "idle"

\* A caller leaves the first loop only holding the lock and seeing the
\* version reached under its service id, or another service id; it reaches
\* the second loop only through the first; with wait_for_all_subscribers it
\* returns only from the second loop's test, and always with OK.
ReturnsOnlyAfterObserving ==
  \A t \in Clients :
    /\ ( pc[t] = "catalog_version_check" /\ pc'[t] # pc[t] )
         => /\ catalog_version_lock = t
            /\ pc'[t] # "catalog_version_wait"
                 => VersionReached(t) \/ ServiceIdDiffers(t)
    /\ ( pc'[t] = "catalog_subscriber_check" /\ pc[t] # pc'[t] )
         => pc[t] \in {"catalog_version_check", "catalog_subscriber_wait"}
    /\ ( pc'[t] = "catalog_subscriber_wait" /\ pc[t] # pc'[t] )
         => pc[t] = "catalog_subscriber_check"
    /\ BarrierReturn(t)
         => /\ result'[t] = [op |-> "ProcessCatalogUpdateResult", q |-> BogusId,
                            val |-> OK]
            /\ catalog_version_lock = t /\ catalog_version_lock' = NoThread
            /\ pc[t] = IF catalog_call[t].wait_for_all_subscribers
                         THEN "catalog_subscriber_check"
                         ELSE "catalog_version_check"

\* C20 as stated: ProcessCatalogUpdateResult(r, true) returns only after it
\* observed, under the lock, catalog_version >= r.version with r's service id
\* or another service id; and once a CatalogUpdateCallback has established
\* one of the two, no caller that was waiting for it is left waiting.
C20_BarrierReturnsOnceVersionReached ==
  /\ [][ReturnsOnlyAfterObserving]_vars
  /\ [](\A t \in Clients :
          ( BlockedOnCv(t) /\ catalog_call[t].waited )
            => ~(VersionReached(t) \/ ServiceIdDiffers(t)))

\* C20 amended: as above for the return; a caller blocked in the first loop
\* is never left there once a callback has established the version under its
\* service id or another service id; a caller blocked in the second loop
\* (wait_for_all_subscribers) is never left there once a callback has brought
\* min_subscriber_catalog_topic_version_ to the topic version it read when
\* it left the first loop, or has changed the service id - but it does stay
\* there with the version reached, and returns from there only with the
\* subscribers reached or another service id.
C20_BarrierNoLostWakeup ==
  /\ [][ /\ ReturnsOnlyAfterObserving
         /\ \A t \in Clients :
              ( BarrierReturn(t) /\ catalog_call[t].wait_for_all_subscribers )
                => SubscribersReached(t) \/ ServiceIdDiffers(t) ]_vars
  /\ [](\A t \in Clients :
          BlockedOnCv(t) =>
            IF pc[t] = "catalog_version_wait"
              THEN ~(VersionReached(t) \/ ServiceIdDiffers(t))
              ELSE ~(SubscribersReached(t) \/ ServiceIdDiffers(t)))

\* A caller that had to wait for the version has returned from the barrier with the version
\* it was told of reached under its catalog service and propagated.
C20_Witness ==
  \E t \in Clients :
    /\ result[t] = [op |-> "ProcessCatalogUpdateResult", q |-> BogusId, val |-> OK]
    /\ catalog_call[t].wait_for_all_subscribers
    /\ catalog_call[t].waited
    /\ catalog_call[t].version > 0
    /\ VersionReached(t)
    /\ SubscribersReached(t)
    /\ catalog_call[t].min_req_subscriber_topic_version > 0

\* t calls ProcessCatalogUpdateResult.
CatalogCallStep(t) ==
  pc[t] = "idle" /\ catalog_call'[t] # catalog_call[t]

\* C21 as stated: with wait_for_all_subscribers the call returns only with
\* min_subscriber_catalog_topic_version_ >= the topic version at which the
\* required version was installed; without it a result that carries an
\* object is applied directly and the call returns without waiting.
C21_ReturnsOnlyWithSubscribersReached ==
  [][ \A t \in Clients :
        /\ ( BarrierReturn(t) /\ catalog_call[t].wait_for_all_subscribers )
             => SubscribersReached(t)
        /\ ( CatalogCallStep(t) /\ catalog_call'[t].has_object
                                /\ ~catalog_call'[t].wait_for_all_subscribers )
             => pc'[t] = "idle" ]_vars

\* C21 amended: with wait_for_all_subscribers the caller reads
\* catalog_topic_version when it leaves the first loop and returns only from
\* the second loop's test, seeing under the lock either
\* min_subscriber_catalog_topic_version_ >= that topic version or a catalog
\* service id other than the result's; a call without it and with an object
\* returns at once with the status of UpdateCatalogCache, takes no lock and
\* changes nothing of the barrier's state; every other call enters the first
\* loop, and one without wait_for_all_subscribers never enters the second.
C21_SubscribersReachedOrServiceChanged ==
  [][ \A t \in Clients :
        /\ ( BarrierReturn(t) /\ catalog_call[t].wait_for_all_subscribers )
             => /\ pc[t] = "catalog_subscriber_check"
                /\ catalog_version_lock = t
                /\ SubscribersReached(t) \/ ServiceIdDiffers(t)
        /\ ( pc[t] = "catalog_version_check" /\ pc'[t] = "catalog_subscriber_check" )
             => /\ catalog_call[t].wait_for_all_subscribers
                /\ catalog_call'[t].min_req_subscriber_topic_version =
                     catalog_update_info.catalog_topic_version
        /\ ( pc[t] = "catalog_subscriber_check" /\ pc'[t] = "catalog_subscriber_wait" )
             => ~(SubscribersReached(t) \/ ServiceIdDiffers(t))
        /\ CatalogCallStep(t)
             => IF catalog_call'[t].has_object /\ ~catalog_call'[t].wait_for_all_subscribers
                  THEN /\ pc'[t] = "idle"
                       /\ result'[t].op = "ProcessCatalogUpdateResult"
                       /\ result'[t].val \in {OK, UpdateCatalogCacheError}
                       /\ UNCHANGED << catalog_update_info, catalog_version_lock,
                                       min_subscriber_catalog_topic_version,
                                       catalog_version_update_cv >>
                  ELSE /\ pc'[t] = "catalog_version_check"
                       /\ catalog_version_lock' = t ]_vars

\* A caller with wait_for_all_subscribers has returned, under the result's
\* catalog service, with the topic version it read reached by all subscribers.
C21_Witness ==
  \E t \in Clients :
    /\ result[t] = [op |-> "ProcessCatalogUpdateResult", q |-> BogusId, val |-> OK]
    /\ pc[t] = "idle"
    /\ catalog_call[t].wait_for_all_subscribers
    /\ ~ServiceIdDiffers(t)
    /\ catalog_call[t].min_req_subscriber_topic_version > 0
    /\ SubscribersReached(t)
    /\ catalog_callback.pc = "idle"

\* ------------------------------------------------------------------------
\* Fragment instances: Prepare() before Cancel(), registration
\* ------------------------------------------------------------------------
\* The step in which Cancel() is invoked on object o.
CancelInvoked(o) == ~fragment_states[o].cancelled /\ fragment_states'[o].cancelled

\* An object that is in the map, or has an exec thread, has had Prepare()
\* return OK.
OnlyPreparedRegistered ==
  /\ \A id \in FragmentIds :
       fragment_exec_state_map[id] # NoFragment
         => fragment_states[fragment_exec_state_map[id]].prepare = "ok"
  /\ \A o \in FragmentObjs :
       fragment_states[o].prepare # "ok"
         => /\ ~fragment_states[o].registered
            /\ fragment_states[o].exec_thread = "none"
            /\ ~fragment_states[o].cancelled

\* C22: Cancel() is invoked only on a state whose Prepare() has returned OK;
\* a state enters the fragment map only after its Prepare() succeeded; a
\* failed Prepare() and a missing output sink return the error from the
\* call itself, leave the map as it is and start no exec thread.
C22_CancelOnlyAfterPrepare ==
  /\ []OnlyPreparedRegistered
  /\ [][ /\ \A o \in FragmentObjs :
              /\ CancelInvoked(o) => fragment_states[o].prepare = "ok"
              /\ ( fragment_states[o].prepare = "running"
                   /\ fragment_states'[o].prepare = "failed" )
                   => /\ \E t \in Clients :
                           /\ fragment_call[t].exec_state = o
                           /\ pc'[t] = "idle"
                           /\ result'[t] = [op |-> "ExecPlanFragment", q |-> BogusId,
                                            val |-> PrepareError]
                      /\ UNCHANGED fragment_exec_state_map
                      /\ fragment_states'[o].exec_thread = "none"
         /\ \A t \in Clients :
              ( pc[t] = "idle" /\ pc'[t] = "idle"
                /\ result'[t].op = "ExecPlanFragment" /\ result'[t] # result[t] )
                => /\ result'[t].val = MissingSinkError
                   /\ UNCHANGED fragmentVars ]_vars

\* A fragment instance was cancelled while its exec thread ran, and another
\* ExecPlanFragment failed in Prepare().
C22_Witness ==
  /\ \E o \in FragmentObjs :
       /\ fragment_states[o].cancelled
       /\ fragment_states[o].exec_thread = "running"
       /\ fragment_states[o].prepare = "ok"
  /\ \E o \in FragmentObjs :
       /\ fragment_states[o].prepare = "failed"
       /\ ~Referenced(o)
  /\ \E t \in Clients : result[t].val = PrepareError

\* C23: from its registration until its exec thread has finished Exec() a
\* fragment instance has an entry in the fragment map, and the entry is its
\* own state.
C23_EntryOwnStateUntilExecDone ==
  \A o \in FragmentObjs :
    ( /\ fragment_states[o].registered
      /\ fragment_states[o].exec_thread \in {"none", "running"} )
      => fragment_exec_state_map[fragment_states[o].fragment_instance_id] = o

\* ------------------------------------------------------------------------
\* ReportExecStatus: unknown and known query ids
\* ------------------------------------------------------------------------
\* Thread t takes a step of ReportExecStatus for query q.
ReportStep(t, q) ==
  /\ pc[t] = "idle"
  /\ \/ pc'[t] = "aborted"
     \/ /\ pc'[t] = "idle"
        /\ result'[t].op = "ReportExecStatus"
        /\ result'[t].q = q
        /\ result'[t] # result[t] \/ coord_reports' # coord_reports

\* C24: a report for a query id that is not registered returns the
\* INTERNAL_ERROR diagnostic and changes nothing; a report for a registered
\* query, in whatever phase, reaches that query's coordinator and the
\* coordinator's status is returned.
C24_ReportForwardedWheneverRegistered ==
  [][ \A t \in Clients, q \in QueryIds :
        ReportStep(t, q)
          => IF q \notin query_exec_state_map
               THEN /\ result'[t].val = ReportUnknownQueryError
                    /\ UNCHANGED << coordinatorVars, backendVars >>
               ELSE /\ pc'[t] = "idle"
                    /\ q \in coord_reports'
                    /\ result'[t].val \in UpdateFragmentExecStatusResults ]_vars

\* ------------------------------------------------------------------------
\* AuthorizeProxyUser: who may delegate to whom
\* ------------------------------------------------------------------------
\* The positions of '/' and '@' in a principal.
Separators(user) == { i \in 1 .. Len(user) : user[i] \in {"/", "@"} }

\* The prefix before the first '/' or '@', the whole principal if it has
\* neither.
PrefixBeforeSeparator(user) ==
  IF Separators(user) = {} THEN user
  ELSE LET first == CHOOSE i \in Separators(user) : \A j \in Separators(user) : i <= j
       IN [ k \in 1 .. (first - 1) |-> user[k] ]

\* The same, except that a principal beginning with '/' or '@' is taken
\* whole.
PrefixOrWholeIfLeading(user) ==
  IF user # << >> /\ user[1] \in {"/", "@"} THEN user ELSE PrefixBeforeSeparator(user)

\* The configuration lets the short name delegate to do_as_user.
Permits(config, short_user, do_as_user) ==
  /\ DOMAIN config # {}
  /\ short_user \in DOMAIN config
  /\ do_as_user \in config[short_user] \/ << "*" >> \in config[short_user]

\* An AuthorizeProxyUser call has returned.
AuthorizeReturned == result["c1"].op = "AuthorizeProxyUser"

\* C25: AuthorizeProxyUser returns OK exactly when the configuration is
\* non-empty, user is non-empty and the prefix of user before its first '/'
\* or '@' (all of user if it has neither) is a key whose value set contains
\* do_as_user or '*'.
C25_OkIffPrefixPermitted ==
  AuthorizeReturned
    => ( result["c1"].val = OK
           <=> /\ authorize_call.user # << >>
               /\ Permits(authorized_proxy_user_config,
                          PrefixBeforeSeparator(authorize_call.user),
                          authorize_call.do_as_user) )

\* C25 amended: the short form of a principal that begins with '/' or '@'
\* is the whole principal, otherwise the prefix before its first '/' or '@'
\* (all of it if it has neither); AuthorizeProxyUser returns OK exactly when
\* the configuration is non-empty, user is non-empty and that short form is
\* a key whose value set contains do_as_user or '*', and an error otherwise.
C25_OkIffShortFormPermitted ==
  AuthorizeReturned
    => /\ result["c1"].val = OK
            <=> /\ authorize_call.user # << >>
                /\ Permits(authorized_proxy_user_config,
                           PrefixOrWholeIfLeading(authorize_call.user),
                           authorize_call.do_as_user)
       /\ result["c1"].val \in {OK, EmptyProxyUserError, NotAuthorizedError,
                                DelegationDisabledError}
       /\ authorize_call.user = << >> => result["c1"].val = EmptyProxyUserError
       /\ authorized_proxy_user_config = NoProxyConfig => result["c1"].val # OK

\* A principal that begins with '/' was allowed to delegate under its whole
\* name, and the configuration has the empty proxy user as well.
C25_Witness ==
  /\ AuthorizeReturned
  /\ result["c1"].val = OK
  /\ authorize_call.user = << "/", "a" >>
  /\ authorize_call.do_as_user = << "b" >>
  /\ << >> \in DOMAIN authorized_proxy_user_config
  /\ authorized_proxy_user_config[<< "/", "a" >>] = { << "b" >> }

\* ------------------------------------------------------------------------
\* TransmitData: AddData and CloseSender
\* ------------------------------------------------------------------------
\* C26: a TransmitData call that has returned called AddData exactly when
\* num_rows > 0 and called CloseSender exactly when eos was set, whatever
\* AddData returned.
C26_AddDataIffRowsCloseSenderIffEos ==
  \A t \in Clients :
    ( pc[t] = "idle" /\ result[t].op = "TransmitData" )
      => /\ transmit_call[t].add_data <=> transmit_call[t].num_rows > 0
         /\ transmit_call[t].close_sender <=> transmit_call[t].eos

\* ------------------------------------------------------------------------
\* The effective idle timeout of a query
\* ------------------------------------------------------------------------
\* min(global, per-query) when both are positive, max(global, per-query)
\* otherwise.
MinIfBothPositiveElseMax(global, per_query) ==
  CHOOSE T \in {global, per_query} :
    IF global > 0 /\ per_query > 0
      THEN T <= global /\ T <= per_query
      ELSE T >= global /\ T >= per_query

\* The timeout the claim gives query q.
TimeoutOf(q) ==
  MinIfBothPositiveElseMax(FLAGS_idle_query_timeout, exec_states[q].query_timeout_s)

\* RegisterQuery in thread t passes its timeout computation.
RegisterTimeoutStep(t) == pc[t] = "register_timeout" /\ pc'[t] = "plan"

\* Only queries with a positive effective timeout have expiration events.
OnlyPositiveTimeoutsQueued ==
  \A e \in queries_by_timestamp : TimeoutOf(e[2]) > 0

\* C27: for every --idle_query_timeout and query_timeout_s, negative and
\* zero included, RegisterQuery adds the event (now + 1000 * T, query) to
\* the expiration queue exactly when T > 0, T being min(global, per-query)
\* if both are positive and max(global, per-query) otherwise; the sweeper
\* computes a query's expiration as last_active + 1000 * T with the same T
\* and expires no query before it; a query with T <= 0 never has an event.
C27_EffectiveTimeoutMinMax ==
  /\ []OnlyPositiveTimeoutsQueued
  /\ [][ /\ \A t \in Clients :
              RegisterTimeoutStep(t) =>
                queries_by_timestamp' =
                  IF TimeoutOf(loc[t].q) > 0
                    THEN queries_by_timestamp
                           \cup { << now + 1000 * TimeoutOf(loc[t].q), loc[t].q >> }
                    ELSE queries_by_timestamp
         /\ QueryDueStep =>
              /\ TimeoutOf(loc'[QueryExpirer].q) > 0
              /\ loc[QueryExpirer].now >=
                   exec_states[loc'[QueryExpirer].q].last_active
                     + 1000 * TimeoutOf(loc'[QueryExpirer].q)
         /\ ( pc[QueryExpirer] = "expire_queries" /\ pc'[QueryExpirer] = "expire_queries" )
              => \A e \in queries_by_timestamp' \ queries_by_timestamp :
                   e[1] = exec_states[e[2]].last_active + 1000 * TimeoutOf(e[2]) ]_vars

\* With --idle_query_timeout=2 the sweeper has found a query with
\* query_timeout_s=1 due, one second after its registration.
C27_Witness ==
  /\ FLAGS_idle_query_timeout = 2
  /\ pc[QueryExpirer] = "expire_query_offer"
  /\ LET q == loc[QueryExpirer].q IN
       /\ q \in query_exec_state_map
       /\ exec_states[q].query_timeout_s = 1
       /\ loc[QueryExpirer].now = exec_states[q].last_active + 1000
       /\ << exec_states[q].last_active + 1000, q >> \in queries_by_timestamp

\* ------------------------------------------------------------------------
\* RegisterQuery with an id that is registered already
\* ------------------------------------------------------------------------
\* RegisterQuery in thread t finds its id in the registry.
DuplicateFoundStep(t) ==
  /\ pc[t] = "register_map"
  /\ pc'[t] # "register_map"
  /\ loc[t].q \in query_exec_state_map

\* Execute returns the duplicate-id error in thread t.
DuplicateReturnStep(t) ==
  /\ pc[t] = "release_session"
  /\ pc'[t] = "idle"
  /\ result'[t] = [op |-> "Execute", q |-> loc[t].q, val |-> DuplicateIdError]

\* A call that was refused for its id does nothing but return.
RefusedOnlyReturns ==
  \A t \in Clients :
    loc[t].status = DuplicateIdError
      => /\ pc[t] = "release_session"
         /\ ~loc[t].registered
         /\ ~loc[t].unregister
         /\ loc[t].q \in query_exec_state_map

\* C28: RegisterQuery with an id that is in the registry returns
\* INTERNAL_ERROR 'query id ... already exists' and leaves the registry, the
\* registered exec state and its lock, the sessions' inflight sets, the
\* expiration queue, the query locations and the query log as they are; the
\* Execute around it only returns that error: when it returns, the query
\* that holds the id is still registered, inflight and not archived.
C28_DuplicateIdRefusedNothingChanged ==
  /\ []RefusedOnlyReturns
  /\ [][ \A t \in Clients :
           /\ DuplicateFoundStep(t)
                => /\ pc'[t] = "release_session"
                   /\ loc'[t].status = DuplicateIdError
                   /\ UNCHANGED << query_exec_state_map, exec_states, sessions,
                                   queries_by_timestamp, query_locations, logVars,
                                   ghostVars >>
                   /\ exec_state_lock'[loc[t].q] = exec_state_lock[loc[t].q]
           /\ DuplicateReturnStep(t)
                => /\ loc[t].q \in query_exec_state_map'
                   /\ loc[t].q \in sessions'[Owner(loc[t].q)].inflight_queries
                   /\ archive_calls'[loc[t].q] = 0
                   /\ UNCHANGED << query_exec_state_map, exec_states, exec_state_lock,
                                   queries_by_timestamp, query_locations, logVars >>
                   /\ \A s \in SessionIds :
                        sessions'[s].inflight_queries = sessions[s].inflight_queries ]_vars

\* An Execute whose id was that of a registered query with an expiration
\* event has returned the error, and the query is registered as before.
C28_Witness ==
  \E t \in Clients :
    /\ pc[t] = "idle"
    /\ result[t].op = "Execute"
    /\ result[t].val = DuplicateIdError
    /\ result[t].q \in query_exec_state_map
    /\ exec_states[result[t].q].query_state = "Running"
    /\ \E e \in queries_by_timestamp : e[2] = result[t].q

\* ------------------------------------------------------------------------
\* Execute that fails
\* ------------------------------------------------------------------------
\* Execute has returned a status other than OK in thread t.
ExecuteFailed(t) ==
  /\ pc[t] = "idle"
  /\ result[t].op = "Execute"
  /\ result[t].val # OK

\* Nothing of query q is in the registry, an inflight set, the expiration
\* queue or the query log, and it never was.
NoTraceOf(q) ==
  /\ q \notin ever_registered
  /\ q \notin query_exec_state_map
  /\ \A s \in SessionIds : q \notin sessions[s].inflight_queries
  /\ \A e \in queries_by_timestamp : e[2] # q
  /\ archive_calls[q] = 0
  /\ \A i \in 1 .. Len(query_log) : query_log[i].id # q

BeingUnregistered(q) ==
  \E u \in Threads :
    /\ loc[u].q = q
    /\ pc[u] \in {"unregister_done", "unregister_locations", "archive"}

CloseReturnStep(t) == pc[t] = "close_loop" /\ pc'[t] = "idle"

\* The queries whose exec state belongs to session s.
OwnedBy(s) == { q \in QueryIds : exec_states[q].session = s }

\* Session s is out of the session registry and marked closed, and none of
\* its queries is registered.
ClosedAndUnregistered(s) ==
  /\ s \notin session_state_map'
  /\ sessions'[s].closed
  /\ \A q \in OwnedBy(s) : q \notin query_exec_state_map'

\* C30: when CloseSessionInternal(s) returns for a session it found, s is
\* out of the session registry, closed is set, and no query of s is in the
\* query registry or in s.inflight_queries.
\* The sessions recorded for connection c.
SessionsOf(c) ==
  { connection_to_sessions_map[c][i] : i \in DOMAIN connection_to_sessions_map[c] }

\* ConnectionEnd returns, having found its connection.
ConnectionEndReturnStep(t) ==
  /\ connection_call[t] # NoConnectionCall
  /\ connection_call'[t] = NoConnectionCall

\* C30 as stated: when CloseSessionInternal(s) returns for a session it found,
\* s is out of the session registry, s.closed is true, no query owned by s is
\* in the query registry and s.inflight_queries is empty; when ConnectionEnd
\* returns the same holds of every session of the connection.
C30_ClosedSessionHasNoQueries ==
  [][ \A t \in Clients :
        /\ CloseReturnStep(t)
             => /\ ClosedAndUnregistered(loc[t].s)
                /\ sessions'[loc[t].s].inflight_queries = {}
        /\ ConnectionEndReturnStep(t)
             => \A s \in SessionsOf(connection_call[t].connection) :
                  /\ ClosedAndUnregistered(s)
                  /\ sessions'[s].inflight_queries = {} ]_vars

\* Every id left in the inflight set of s is held by an UnregisterQuery that
\* has erased it from the registry and is about to drop it from the set.
InflightOnlyUnregistering(s) ==
  \A q \in sessions'[s].inflight_queries : Unregistering(q)'

\* C30 amended: when CloseSessionInternal(s) returns for a session it found,
\* s is out of the session registry, s.closed is true and no query owned by
\* s is in the query registry; an id still in s.inflight_queries belongs to a
\* query that a concurrent UnregisterQuery erased from the registry first
\* and has not yet dropped from the set.  When ConnectionEnd returns the same
\* holds of every session of the connection.
C30_ClosedSessionQueriesErased ==
  [][ \A t \in Clients :
        /\ CloseReturnStep(t)
             => /\ ClosedAndUnregistered(loc[t].s)
                /\ InflightOnlyUnregistering(loc[t].s)
        /\ ConnectionEndReturnStep(t)
             => \A s \in SessionsOf(connection_call[t].connection) :
                  /\ ClosedAndUnregistered(s)
                  /\ InflightOnlyUnregistering(s) ]_vars

\* ConnectionEnd has returned after closing a session that Execute had a
\* query on; Execute's own UnregisterQuery erased the query first and still
\* holds its id in the inflight set of the closed session.
C30_Witness ==
  \E s \in AllSessionIds, q \in QueryIds :
    /\ result["c2"].op = "ConnectionEnd"
    /\ pc["c2"] = "idle"
    /\ connection_to_sessions_map["s1"] = << >>
    /\ sessions[s].closed
    /\ s \notin session_state_map
    /\ q \in sessions[s].inflight_queries
    /\ q \notin query_exec_state_map
    /\ pc["c1"] = "unregister_done"
    /\ loc["c1"].q = q

\* The work items the step appended to the cancellation queue.
Offered ==
  IF Len(cancellation_queue') >= Len(cancellation_queue)
    THEN SubSeq(cancellation_queue', Len(cancellation_queue) + 1, Len(cancellation_queue'))
    ELSE << >>

UpdatingDeltas == { delta \in CatalogDeltas : delta.present /\ HasUpdates(delta) }

\* What a successful callback writes into catalog_update_info_.
Installed(delta, catalog_service_id) ==
  [ catalog_version |->
      IF delta.catalog_object # NoCatalogObject
        THEN delta.catalog_object
        ELSE catalog_update_info.catalog_version,
    catalog_topic_version |-> delta.to_version,
    catalog_service_id |-> catalog_service_id ]

\* The callback goes from the lookup of the topic to the update of the
\* minimum subscriber version.
ApplyStep == catalog_callback.pc = "idle" /\ catalog_callback'.pc = "min_version"

\* C32: when UpdateCatalogCache fails the callback pushes one catalog-topic
\* update with from_version = 0, drops the library cache, leaves
\* catalog_update_info_ as it was and does not touch catalog_version_lock_;
\* a callback that does not fail pushes nothing and drops nothing;
\* catalog_update_info_ changes only by a callback that did not fail writing
\* the three fields together, from one heartbeat and with the lock free, so
\* that UpdateCatalogCache, which comes before the write, runs outside the
\* lock.  Failed or not, the callback does not return before
\* min_subscriber_catalog_topic_version_ holds the heartbeat's value and
\* the waiters are notified.
C32_FailedUpdateKeepsInfoAndStillNotifies ==
  /\ [][ ApplyStep =>
           \A delta \in UpdatingDeltas :
             CatalogUpdateCallback_Apply(delta, FALSE, NoServiceId)
               => /\ catalog_callback'.subscriber_topic_updates = << FullTopicUpdate >>
                  /\ catalog_callback'.drop_cache
                  /\ catalog_update_info' = catalog_update_info
                  /\ catalog_version_lock' = catalog_version_lock
                  /\ catalog_callback'.min_subscriber_topic_version =
                       delta.min_subscriber_topic_version ]_vars
  /\ [][ (ApplyStep /\ ~catalog_callback'.drop_cache)
           => catalog_callback'.subscriber_topic_updates = << >> ]_vars
  /\ [][ catalog_update_info' # catalog_update_info
           => /\ ApplyStep
              /\ catalog_version_lock = NoThread
              /\ ~catalog_callback'.drop_cache
              /\ \E delta \in UpdatingDeltas, sid \in ServiceIds :
                   catalog_update_info' = Installed(delta, sid) ]_vars
  /\ [][ (catalog_callback.pc # "idle" /\ catalog_callback'.pc = "idle")
           => /\ min_subscriber_catalog_topic_version =
                   catalog_callback.min_subscriber_topic_version
              /\ catalog_version_update_cv' = {} ]_vars

\* A heartbeat failed in UpdateCatalogCache while a client waits at the
\* barrier and an earlier heartbeat's catalog is installed: the callback is
\* about to notify, the full-topic request is pushed, the cache dropped,
\* the minimum subscriber version updated.
C32_Witness ==
  /\ catalog_callback.pc = "notify"
  /\ catalog_callback.drop_cache
  /\ catalog_callback.subscriber_topic_updates = << FullTopicUpdate >>
  /\ catalog_update_info.catalog_service_id # NoServiceId
  /\ catalog_update_info.catalog_version > 0
  /\ min_subscriber_catalog_topic_version = catalog_callback.min_subscriber_topic_version
  /\ min_subscriber_catalog_topic_version > 0
  /\ catalog_version_update_cv # {}

\* ------------------------------------------------------------------------
\* The decisions of one pass of the query sweeper
\* ------------------------------------------------------------------------
\* The event the sweeper is at and that event's query.
SweeperEvent == FirstEvent(loc[QueryExpirer].todo)

\* expiration = last_active + effective timeout, as the pass recomputes it.
Expiration(q) ==
  exec_states[q].last_active +
    EffectiveTimeout(FLAGS_idle_query_timeout, exec_states[q].query_timeout_s) * 1000

\* The sweeper looks at an event that is due in this pass.
VisitsDueEvent ==
  /\ pc[QueryExpirer] = "expire_queries"
  /\ << pc[QueryExpirer], loc[QueryExpirer] >> # << pc'[QueryExpirer], loc'[QueryExpirer] >>
  /\ loc[QueryExpirer].todo # {}
  /\ SweeperEvent[1] <= loc[QueryExpirer].now

ExpiredItems(queue) ==
  { i \in 1 .. Len(queue) : queue[i].cause = QueryExpiredCause }

\* C33: the query sweeper decides to expire q only at a due event of a
\* registered query with now >= last_active + effective timeout that is not
\* in use; work with the expiry cause enters the cancellation queue only from
\* that decision, as one cancel-kind item for q together with the removal of
\* q's event.  A due event of a registered query whose recomputed expiration
\* is still ahead leads to no offer and leaves q's event at the recomputed
\* expiration, and a due event of a query that is no longer registered is
\* removed with nothing offered.
C33_SweeperExpiresOnlyIdleOverdueQueries ==
  [][ LET t == QueryExpirer
          e == SweeperEvent
          q == e[2]
      IN
      /\ (pc[t] = "expire_queries" /\ pc'[t] = "expire_query_offer") =>
            /\ VisitsDueEvent
            /\ q \in query_exec_state_map
            /\ loc[t].now >= Expiration(q)
            /\ ~exec_states[q].is_active
            /\ loc'[t].q = q
      /\ ExpiredItems(Offered) # {} =>
            /\ pc[t] = "expire_query_offer"
            /\ Offered = << CancellationWork(loc[t].q, QueryExpiredCause, FALSE) >>
            /\ e[2] = loc[t].q
            /\ queries_by_timestamp' = queries_by_timestamp \ {e}
      /\ (VisitsDueEvent /\ q \in query_exec_state_map /\ loc[t].now < Expiration(q)) =>
            /\ pc'[t] # "expire_query_offer"
            /\ cancellation_queue' = cancellation_queue
            /\ queries_by_timestamp' =
                 (queries_by_timestamp \ {e}) \cup {<< Expiration(q), q >>}
      /\ (VisitsDueEvent /\ q \notin query_exec_state_map) =>
            /\ pc'[t] = pc[t]
            /\ cancellation_queue' = cancellation_queue
            /\ queries_by_timestamp' = queries_by_timestamp \ {e}
    ]_vars

\* The sweeper has expired a query that a client had used after it was
\* registered and then left idle: its item is queued, its event is gone.
C33_Witness ==
  \E q \in query_exec_state_map :
    /\ pc[QueryExpirer] = "expire_queries"
    /\ ~exec_states[q].is_active
    /\ exec_states[q].last_active > 0
    /\ loc[QueryExpirer].now >= Expiration(q)
    /\ ExpiredItems(cancellation_queue) # {}
    /\ \A i \in ExpiredItems(cancellation_queue) :
         cancellation_queue[i] = CancellationWork(q, QueryExpiredCause, FALSE)
    /\ \A e \in queries_by_timestamp : e[2] # q

\* ------------------------------------------------------------------------
\* The sweep and client-driven completion
\* ------------------------------------------------------------------------
EntriesOf(q) == { e \in queries_by_timestamp : e[2] = q }

\* UnregisterQuery(q) is past its own cancel, or has returned true.
UnregisterUnderWay(q) ==
  \/ unregister_true[q] >= 1
  \/ \E t \in Clients :
       /\ loc[t].q = q
       /\ pc[t] \in {"unregister_erase", "unregister_done", "unregister_locations", "archive"}

\* A step of the query sweeper or of a worker handling a queued item.
SweepOrWorkerStep ==
  \E t \in {QueryExpirer} \cup Workers :
    << pc[t], loc[t], result[t] >> # << pc'[t], loc'[t], result'[t] >>

\* What the server holds of q, the exec-state mutex aside.
StateOf(q) ==
  << q \in query_exec_state_map, exec_states[q],
     { s \in SessionIds : q \in sessions[s].inflight_queries },
     { h \in DOMAIN query_locations : q \in query_locations[h] },
     query_log, query_log_index, done_calls[q], archive_calls[q], unregister_true[q] >>

\* C34: a query never has two events in queries_by_timestamp_, the sweeper
\* enqueues at most one expiry item for a query, a query is archived at most
\* once, no step of the sweeper or of a worker handling an item changes
\* anything of a query whose UnregisterQuery is past its cancel or has
\* returned, the sweeper removes the due event of an unregistered query when
\* it visits it, and a pass ends only when it has visited every due event.
C34_SweepIdempotentWithUnregister ==
  /\ [](\A q \in QueryIds :
         /\ Cardinality(EntriesOf(q)) <= 1
         /\ expire_offers[q] <= 1
         /\ archive_calls[q] <= 1)
  /\ [][ /\ SweepOrWorkerStep =>
            \A q \in QueryIds : UnregisterUnderWay(q) => StateOf(q)' = StateOf(q)
         /\ (VisitsDueEvent /\ SweeperEvent[2] \notin query_exec_state_map) =>
              /\ EntriesOf(SweeperEvent[2])' = {}
              /\ expire_offers' = expire_offers
         /\ (pc[QueryExpirer] = "expire_queries" /\ pc'[QueryExpirer] = "idle") =>
              \A e \in loc[QueryExpirer].todo : e[1] > loc[QueryExpirer].now
       ]_vars

\* The sweeper expired q, the client unregistered it, and the worker that
\* took the item found no such query; q is archived once and has no event.
C34_Witness ==
  \E q \in QueryIds, w \in Workers :
    /\ expire_offers[q] = 1
    /\ unregister_true[q] = 1
    /\ archive_calls[q] = 1
    /\ EntriesOf(q) = {}
    /\ pc[w] = "idle"
    /\ result[w] = [op |-> "CancelInternal", q |-> q,
                    val |-> "Invalid or unknown query handle"]

\* ------------------------------------------------------------------------
\* Profiles of queries that are being unregistered
\* ------------------------------------------------------------------------
\* q's record was archived and has been evicted from the query log.
Evicted(q) ==
  /\ \E i \in 1 .. Len(archive_order) : archive_order[i] = q
  /\ q \notin DOMAIN query_log_index

\* GetRuntimeProfileStr returns to thread t.
ProfileReturnStep(t) ==
  /\ pc[t] \in {"profile_live", "profile_log"}
  /\ pc'[t] = "idle"

\* C35: with query_log_size # 0, a GetRuntimeProfileStr(q) that returns for
\* a query that was registered and whose record has not been evicted from
\* the query log returns OK.
C35_ProfileFoundFromRegistrationToEviction ==
  [][ \A t \in Clients :
        (/\ ProfileReturnStep(t)
         /\ FLAGS_query_log_size # 0
         /\ loc[t].q \in ever_registered
         /\ ~Evicted(loc[t].q))
        => result'[t].val[1] = OK ]_vars

\* ------------------------------------------------------------------------
\* query_locations_ after Execute and UnregisterQuery
\* ------------------------------------------------------------------------
\* No thread is inside a call on q: Execute(q), UnregisterQuery(q) and every
\* cancel of q have returned.
NoCallOn(q) ==
  \A t \in Clients \cup Workers : pc[t] = "idle" \/ loc[t].q # q

LocationsOf(q) == { h \in DOMAIN query_locations : q \in query_locations[h] }

\* C36: once UnregisterQuery(q) has returned true and no call on q is still
\* running (Execute(q) has returned), q is in no set of query_locations_.
C36_UnregisteredQueryHasNoLocations ==
  \A q \in QueryIds :
    (unregister_true[q] >= 1 /\ NoCallOn(q)) => LocationsOf(q) = {}

\* ------------------------------------------------------------------------
\* query_log_ and query_log_index_
\* ------------------------------------------------------------------------
RecordIds(log) == { log[i].id : i \in 1 .. Len(log) }

\* A look-up in the archive returns to thread t with an answer for q.
LogLookupReturns(t) ==
  \/ pc[t] = "profile_log" /\ pc'[t] = "idle"
  \/ result'[t] # result[t] /\ result'[t].op = "GetExecSummary"

\* C37: the keys of query_log_index_ are the ids of the records of
\* query_log_, no two records carry one id and each key maps to the record of
\* that id; ArchiveQuery puts the new record first and, when it evicts,
\* removes the last record and that record's key and nothing else; a look-up
\* of GetRuntimeProfileStr or GetExecSummary in the archive returns OK
\* exactly for the ids whose record is in the log.
C37_LogIndexMatchesLog ==
  /\ [](/\ DOMAIN query_log_index = RecordIds(query_log)
        /\ Cardinality(RecordIds(query_log)) = Len(query_log)
        /\ \A i \in 1 .. Len(query_log) :
             query_log_index[query_log[i].id] = query_log[i])
  /\ [][ /\ query_log' # query_log =>
              \E t \in Clients :
                /\ pc[t] = "archive"
                /\ query_log'[1] = QueryStateRecord(loc[t].q)
                /\ \/ /\ query_log' = << query_log'[1] >> \o query_log
                      /\ DOMAIN query_log_index' =
                           DOMAIN query_log_index \cup {loc[t].q}
                   \/ /\ FLAGS_query_log_size = Len(query_log)
                      /\ query_log' =
                           << query_log'[1] >> \o SubSeq(query_log, 1, Len(query_log) - 1)
                      /\ DOMAIN query_log_index' =
                           (DOMAIN query_log_index \cup {loc[t].q})
                             \ {query_log[Len(query_log)].id}
         /\ \A t \in Clients :
              LogLookupReturns(t) =>
                (result'[t].val[1] = OK <=> result'[t].q \in RecordIds(query_log))
       ]_vars

\* A second archived query has evicted the first from a log of one record,
\* and GetExecSummary of the first then found nothing.
C37_Witness ==
  /\ FLAGS_query_log_size = 1
  /\ Len(archive_order) = 2
  /\ RecordIds(query_log) = {archive_order[2]}
  /\ DOMAIN query_log_index = {archive_order[2]}
  /\ result["c2"] = [op |-> "GetExecSummary", q |-> archive_order[1],
                     val |-> << "Query id not found", FALSE >>]

\* ------------------------------------------------------------------------
\* Deadlocks over the server's mutexes and the cancellation queue
\* ------------------------------------------------------------------------
\* The threads a thread waits for: the holder of the mutex its next step
\* needs, and for an Offer on a full queue the pool's workers, who alone
\* make room.  Empty when the thread can go on or is idle.
WaitsFor(t) ==
  LET holders ==
        CASE pc[t] \in {"register_session", "close_mark", "release_session"}
               -> {session_lock[loc[t].s]}
          [] pc[t] = "unregister_done" -> {session_lock[Owner(loc[t].q)]}
          [] pc[t] \in {"register_map", "cancel_lookup", "unregister_erase",
                        "profile_live"}
               -> {query_exec_state_map_lock}
          [] pc[t] = "cancel_wait" -> {exec_state_lock[loc[t].q]}
          [] pc[t] = "register_timeout"
               -> IF EffectiveTimeout(FLAGS_idle_query_timeout,
                                      exec_states[loc[t].q].query_timeout_s) > 0
                    THEN {query_expiration_lock} ELSE {}
          [] pc[t] = "expire_queries"
               -> IF loc[t].todo # {} /\ FirstEvent(loc[t].todo)[1] <= loc[t].now
                    THEN {query_exec_state_map_lock} ELSE {}
          [] pc[t] = "expire_scan"
               -> IF loc[t].todo # {} /\ \A s \in loc[t].todo : session_lock[s] # NoThread
                    THEN {session_lock[s] : s \in loc[t].todo} ELSE {}
          [] pc[t] \in {"expire_offer", "expire_query_offer"}
               -> IF Len(cancellation_queue) >= MAX_CANCELLATION_QUEUE_SIZE
                    THEN Workers ELSE {}
          [] OTHER -> {}
  IN holders \ {NoThread, t}

\* Every thread of the set waits, and only for threads of the set.
DeadlockedSet(D) ==
  D # {} /\ \A t \in D : WaitsFor(t) # {} /\ WaitsFor(t) \subseteq D

\* C38: in no reachable state does a set of threads wait for one another
\* over the session registry lock, the session locks, the query registry
\* lock, the exec-state locks, query_expiration_lock_ and room in the
\* cancellation queue.
C38_NoDeadlock ==
  \A D \in SUBSET Threads : ~DeadlockedSet(D)

\* ------------------------------------------------------------------------
\* Concurrent closes of one session
\* ------------------------------------------------------------------------
\* The threads that found s in session_state_map_ and are closing it.
Closers(s) ==
  { t \in Clients : pc[t] \in {"close_mark", "close_loop"} /\ loc[t].s = s }

\* A CloseSessionInternal of thread t returns without having found its session.
CloseNotFoundStep(t) ==
  /\ pc[t] \in {"idle", "connection_end"}
  /\ result'[t] # result[t]
  /\ result'[t].op = "CloseSessionInternal"

\* C39: a thread that sets closed finds it false (the DCHECK of line 782
\* holds); a session is found and erased only while it is not closed and
\* nobody is closing it, so it has at most one closer; a closed session is
\* not in session_state_map_; and a CloseSessionInternal that does not find
\* its session returns 'Invalid session ID', or OK if ignore_if_absent, and
\* leaves the sessions, the queries and the log as they are.
C39_OnlyOneCloserSetsClosed ==
  /\ [](\A s \in AllSessionIds :
         /\ Cardinality(Closers(s)) <= 1
         /\ sessions[s].closed => s \notin session_state_map
         /\ \A t \in Closers(s) : pc[t] = "close_mark" => ~sessions[s].closed)
  /\ [][ /\ \A t \in Clients :
              (pc[t] = "close_mark" /\ pc'[t] # "close_mark") =>
                 /\ ~sessions[loc[t].s].closed
                 /\ sessions'[loc[t].s].closed
         /\ \A s \in AllSessionIds :
              (s \in session_state_map /\ s \notin session_state_map') =>
                 /\ ~sessions[s].closed
                 /\ Closers(s) = {}
                 /\ Cardinality(Closers(s)') = 1
         /\ \A s \in AllSessionIds :
              (~sessions[s].closed /\ sessions'[s].closed) =>
                 \E t \in Closers(s) : pc[t] = "close_mark"
         /\ \A t \in Clients :
              CloseNotFoundStep(t) =>
                 /\ result'[t].val \in {OK, "Invalid session ID"}
                 /\ UNCHANGED << sessionVars, queryVars, query_locations,
                                 queries_by_timestamp, logVars, cancellation_queue,
                                 connection_to_sessions_map, ghostVars >>
       ]_vars

\* One thread is closing session s1, which it found and marked closed, and
\* the other thread's CloseSessionInternal(s1) has returned 'Invalid session ID'.
C39_Witness ==
  \E t \in Clients, u \in Clients :
    /\ t # u
    /\ pc[t] = "close_loop"
    /\ loc[t].s = "s1"
    /\ sessions["s1"].closed
    /\ pc[u] = "idle"
    /\ result[u] = [op |-> "CloseSessionInternal", q |-> BogusId,
                    val |-> "Invalid session ID"]

\* ------------------------------------------------------------------------
\* AuthorizeProxyUser with an empty doAs user
\* ------------------------------------------------------------------------
\* C40: AuthorizeProxyUser called by a non-empty user with an empty
\* do_as_user returns an error, whatever the configuration.
C40_EmptyDoAsUserRefused ==
  (/\ AuthorizeReturned
   /\ authorize_call.user # << >>
   /\ authorize_call.do_as_user = << >>)
  => result["c1"].val # OK

====
